---- MODULE Spec2Model ----
(***************************************************************************)
(* Token lifecycle and identity reconciliation of the auth service         *)
(* (services/authService.ts, utils/jwt.ts, utils/crypto.ts, db/schema.ts). *)
(*                                                                         *)
(* The PostgreSQL tables are the state.  The service wraps nothing in a    *)
(* transaction, so every awaited statement of a handler takes effect on    *)
(* its own; a handler is modelled as a sequence of steps, one per awaited  *)
(* statement (the synchronous code before a statement belongs to its step).*)
(* Statements that no other handler can observe are joined to the step     *)
(* before them: a select of columns that are never updated (users.id,      *)
(* users.email, users.status), the update of users.last_login_at and the   *)
(* audit insert, which no handler reads.  Each element of Procs is one     *)
(* request being served.                                                   *)
(***************************************************************************)
EXTENDS Integers, Sequences, FiniteSets, TLC

\* ------------------------------------------------------------ bounds ----
MaxTime == 2          \* the clock runs over 0..MaxTime (one unit = one iat second)
RefreshTTL == 2       \* scaled "30 days" of a refresh_tokens row
VerifyTTL == 2        \* scaled "24 hours" of an email_verification token
ResetTTL == 2         \* scaled "1 hour" of a password_reset token
MaxRefreshRows == 3   \* rows of refresh_tokens
MaxOneTime == 3       \* rows of verification_tokens
MaxUsers == 3         \* rows of users
MaxLinks == 2         \* oauth_providers rows ever inserted
MaxAudit == 6         \* rows of auth_audit_log

\* the requests served at the same time (slots of in-flight requests)
Procs == {1, 2}
NULL == -1            \* SQL NULL of a timestamp / id column

Emails == {"a@x.com", "b@x.com"}
\* OAuthProfile.email: firebaseAuth passes email || '' for a missing email
OAuthEmails == Emails \cup {""}
StrongPasswords == {"Str0ng!pw", "N3w!Passw"}
WeakPasswords == {"weak"}
Passwords == StrongPasswords \cup WeakPasswords
Providers == {"google", "facebook"}
ProviderIds == {"sub1"}
ProviderTokens == {"pat1", "pat2"}

\* --------------------------------------------------- pure functions ----
\* utils/password.ts is not part of the sources: validatePasswordStrength
\* follows the rule set of the specification, with the messages its tests
\* expect.  A password is seen through its length and the character classes
\* it contains.
MinPasswordLength == 8
PasswordRules == 1..5
RuleHolds(r, s) ==
    CASE r = 1 -> s.len >= MinPasswordLength
      [] r = 2 -> s.upper
      [] r = 3 -> s.lower
      [] r = 4 -> s.digit
      [] r = 5 -> s.special
RuleMessage(r) ==
    CASE r = 1 -> "Password must be at least 8 characters long"
      [] r = 2 -> "Password must contain at least one uppercase letter"
      [] r = 3 -> "Password must contain at least one lowercase letter"
      [] r = 4 -> "Password must contain at least one number"
      [] r = 5 -> "Password must contain at least one special character"

PasswordShape(len, upper, lower, digit, special) ==
    [len |-> len, upper |-> upper, lower |-> lower, digit |-> digit, special |-> special]

\* the passwords of the requests
Shape(pw) ==
    CASE pw = "Str0ng!pw" -> PasswordShape(9, TRUE, TRUE, TRUE, TRUE)
      [] pw = "N3w!Passw" -> PasswordShape(9, TRUE, TRUE, TRUE, TRUE)
      [] pw = "weak" -> PasswordShape(4, FALSE, TRUE, FALSE, FALSE)

RECURSIVE ErrorsFrom(_, _)
ErrorsFrom(r, s) ==
    IF r \notin PasswordRules THEN <<>>
    ELSE (IF RuleHolds(r, s) THEN <<>> ELSE <<RuleMessage(r)>>) \o ErrorsFrom(r + 1, s)

PasswordErrorsFirstOnly(s) ==
    IF ErrorsFrom(1, s) = <<>> THEN <<>> ELSE <<Head(ErrorsFrom(1, s))>>

\* one message per rule that fails, in the order of the rules
PasswordErrors(s) == ErrorsFrom(1, s)

\* validatePasswordStrength of a password of shape s: {valid, errors}
ValidateShape(s) == [valid |-> PasswordErrors(s) = <<>>, errors |-> PasswordErrors(s)]

ValidatePasswordStrength(pw) == ValidateShape(Shape(pw))

\* Array.prototype.join
RECURSIVE JoinWith(_, _)
JoinWith(errors, sep) ==
    IF errors = <<>> THEN ""
    ELSE IF Len(errors) = 1 THEN errors[1]
    ELSE errors[1] \o sep \o JoinWith(Tail(errors), sep)

JoinFirstOnly(errors) == IF errors = <<>> THEN "" ELSE errors[1]

\* passwordValidation.errors.join(', ')
Join(errors) == JoinWith(errors, ", ")

NoHash == [alg |-> "none", pw |-> ""]
HashPassword(pw) == [alg |-> "bcrypt", pw |-> pw]
VerifyPassword(pw, hash) == hash.alg = "bcrypt" /\ hash.pw = pw

\* jwt.sign(payload, secret, {expiresIn, issuer, audience}) with HS256: the
\* token is a function of the payload and of iat = floor(Date.now()/1000);
\* there is no jti and no random part.
NoToken == [typ |-> "none", userId |-> 0, email |-> "", iat |-> 0]
GenerateAccessToken(userId, email, t) ==
    [typ |-> "access", userId |-> userId, email |-> email, iat |-> t]
GenerateRefreshToken(userId, email, t) ==
    [typ |-> "refresh", userId |-> userId, email |-> email, iat |-> t]
GenerateTokenPair(userId, email, t) ==
    [accessToken |-> GenerateAccessToken(userId, email, t),
     refreshToken |-> GenerateRefreshToken(userId, email, t)]

\* The token on the wire.  jwt.sign adds iat, exp = iat + expiresIn, iss and
\* aud to the payload and signs the whole with HS256 under config.jwt.secret.
Secret == "JWT_SECRET"
Issuer == "auth-system"
Audience == "auth-system-api"

\* config.jwt.accessTokenExpiry and config.jwt.refreshTokenExpiry, read from
\* the environment: the signed lifetime of a refresh token is set
\* independently of the 30 days of its refresh_tokens row (here it is shorter)
AccessTokenExpiry == 1
RefreshTokenExpiry == 1
ExpiresIn(typ) == IF typ = "access" THEN AccessTokenExpiry ELSE RefreshTokenExpiry

Body(w) == [payload |-> w.payload, iat |-> w.iat, exp |-> w.exp, iss |-> w.iss, aud |-> w.aud]
Hs256(key, body) == [key |-> key, body |-> body]

JwtSignWith(key, payload, expiresIn, iss, aud, t) ==
    LET body == [payload |-> payload, iat |-> t, exp |-> t + expiresIn, iss |-> iss, aud |-> aud]
    IN [payload |-> payload, iat |-> t, exp |-> t + expiresIn, iss |-> iss, aud |-> aud,
        sig |-> Hs256(key, body)]

\* jwt.sign(payload, config.jwt.secret, {expiresIn, issuer, audience})
JwtSign(payload, expiresIn, t) == JwtSignWith(Secret, payload, expiresIn, Issuer, Audience, t)

\* the string returned by generateAccessToken / generateRefreshToken for the
\* token tok
Encoded(tok) ==
    JwtSign([userId |-> tok.userId, email |-> tok.email, type |-> tok.typ],
            ExpiresIn(tok.typ), tok.iat)

Verified(w) ==
    [ok |-> TRUE, error |-> "",
     payload |-> [typ |-> w.payload.type, userId |-> w.payload.userId,
                  email |-> w.payload.email, iat |-> w.iat]]
VerifyFails(message) == [ok |-> FALSE, error |-> message, payload |-> NoToken]

VerifyTokenOneError(w, t) ==
    IF w.sig = Hs256(Secret, Body(w)) /\ t < w.exp /\ w.aud = Audience /\ w.iss = Issuer
    THEN Verified(w)
    ELSE VerifyFails("Invalid token")

\* verifyToken: jwt.verify(token, config.jwt.secret, {issuer, audience})
\* checks the signature, then the expiry, then the audience, then the
\* issuer; TokenExpiredError becomes UnauthorizedError('Token has expired'),
\* any other JsonWebTokenError becomes UnauthorizedError('Invalid token')
VerifyToken(w, t) ==
    IF w.sig # Hs256(Secret, Body(w)) THEN VerifyFails("Invalid token")
    ELSE IF t >= w.exp THEN VerifyFails("Token has expired")
    ELSE IF w.aud # Audience THEN VerifyFails("Invalid token")
    ELSE IF w.iss # Issuer THEN VerifyFails("Invalid token")
    ELSE Verified(w)

\* crypto.createHash('sha256').update(token).digest('hex'): deterministic
\* and (for the model) injective.
HashToken(token) == [sha256 |-> token]

\* ----------------------------------------------------------- state ----
VARIABLES
    users,               \* table users: sequence, row i has id i
    oauthProviders,      \* table oauth_providers: set of rows
    oauthSeq,            \* number of oauth_providers rows ever inserted (ids)
    refreshTokens,       \* table refresh_tokens: sequence, row i has id i
    verificationTokens,  \* table verification_tokens: sequence, row i has id i
    auditLog,            \* table auth_audit_log, in insertion order
    auditUp,             \* whether the insert into auth_audit_log of the last step succeeds
    outbox,              \* the emails handed to the mail transport, in order
    mailUp,              \* whether the mail transport accepts the email of the last step
    now,                 \* the clock
    pc,                  \* per request: the statement it executes next
    loc,                 \* per request: arguments and local variables
    ret,                 \* the response sent by the step just taken, if it ended a call
    rotated,             \* history: <<old row id, new row id>> per finished rotation
    rotRevoked,          \* history: row ids revoked by the rotation statement
    preReset,            \* history: row ids that existed when a reset revoked the owner's rows
    consumedOK,          \* history: one-time tokens whose consuming call returned success
    writes,              \* history: per verification_tokens row, writes made on its behalf
    limiterKeys,         \* Redis: per rate-limit key, its counter and its expiry
    hit,                 \* the last increment of the rate-limit store and what came of it
    localStorage,        \* the browser's localStorage: accessToken and refreshToken
    req                  \* per API request of the web client: its position and locals

vars == <<users, oauthProviders, oauthSeq, refreshTokens, verificationTokens,
          auditLog, auditUp, outbox, mailUp, now, pc, loc, ret,
          rotated, rotRevoked, preReset, consumedOK, writes,
          limiterKeys, hit, localStorage, req>>

edge == <<limiterKeys, hit>>
browser == <<localStorage, req>>

store == <<users, oauthProviders, oauthSeq, refreshTokens, verificationTokens>>
history == <<rotated, rotRevoked, preReset, consumedOK, writes>>

Loc0 ==
    [tok |-> NoToken, ott |-> 0, email |-> "", pw |-> "", uid |-> 0,
     row |-> 0, newTok |-> NoToken, provider |-> "", providerId |-> "",
     ptoken |-> "", existing |-> 0, isNewUser |-> FALSE, linked |-> FALSE]

NoResult ==
    [op |-> "none", status |-> "none", message |-> "",
     tok |-> NoToken, ott |-> 0, refreshToken |-> NoToken,
     uid |-> 0, isNewUser |-> FALSE, email |-> "", pw |-> "",
     provider |-> "", providerId |-> "", decoded |-> NoToken, errors |-> <<>>]

\* a thrown AppError (or a database error, or the death of the process), or
\* a returned acknowledgement
Outcome(op, status, message) ==
    [NoResult EXCEPT !.op = op, !.status = status, !.message = message]

\* a returned token pair
Issued(op, uid, token, isNewUser) ==
    [NoResult EXCEPT !.op = op, !.status = "ok", !.refreshToken = token,
                     !.uid = uid, !.isNewUser = isNewUser]

\* ------------------------------------------------------ store reads ----
UserByEmail(email) ==
    LET S == {i \in DOMAIN users : users[i].email = email}
    IN IF S = {} THEN 0 ELSE CHOOSE i \in S : \A j \in S : i <= j

RefreshRowByHash(h) ==
    LET S == {i \in DOMAIN refreshTokens : refreshTokens[i].tokenHash = h}
    IN IF S = {} THEN 0 ELSE CHOOSE i \in S : TRUE

OneTimeRowAnyType(token, type) ==
    LET S == {i \in DOMAIN verificationTokens : verificationTokens[i].token = token}
    IN IF S = {} THEN 0 ELSE CHOOSE i \in S : TRUE

OneTimeRow(token, type) ==
    LET S == {i \in DOMAIN verificationTokens :
                /\ verificationTokens[i].token = token
                /\ verificationTokens[i].tokenType = type}
    IN IF S = {} THEN 0 ELSE CHOOSE i \in S : TRUE

ProviderRowNever(provider, providerId) == 0

ProviderRow(provider, providerId) ==
    LET S == {r \in oauthProviders :
                r.provider = provider /\ r.providerUserId = providerId}
    IN IF S = {} THEN 0 ELSE (CHOOSE r \in S : TRUE).id

LogAuditEventDropped(log, userId, eventType) == log

\* private logAuditEvent: the insert is wrapped in try/catch.  Whether the
\* insert of a step succeeds is an input of that step (auditUp').
LogAuditEvent(log, userId, eventType) ==
    IF auditUp' THEN Append(log, [userId |-> userId, eventType |-> eventType])
    ELSE log

AuditThrowsWhenDown == ~auditUp'

\* logAuditEvent: catch (error) { logger.error(...) }, nothing is rethrown
AuditThrows == FALSE

\* emailService.sendVerificationEmail / sendPasswordResetEmail /
\* sendWelcomeEmail: whether the transport accepts the email of a step is an
\* input of that step (mailUp')
SendMail(box, userId, kind, token) ==
    IF mailUp' THEN Append(box, [to |-> users[userId].email, kind |-> kind, token |-> token])
    ELSE box

MailThrowsWhenDown == ~mailUp'

\* every call of emailService in AuthService is wrapped in
\* try { ... } catch (error) { logger.error(...) }
MailThrows == FALSE

\* the side channels of a run that are either up or down for the whole run
SteadyChannels == UNCHANGED <<auditUp, mailUp>>

\* a step of the service leaves the rate-limit store and the browser alone
ServiceOnly == UNCHANGED <<edge, browser>>

\* a new request takes the lowest free slot
Free(p) == pc[p] = "idle" /\ \A q \in Procs : q < p => pc[q] # "idle"

\* the call of request p ends with outcome r
Finish(p, r) ==
    /\ pc' = [pc EXCEPT ![p] = "idle"]
    /\ loc' = [loc EXCEPT ![p] = Loc0]
    /\ ret' = r

Goto(p, label, l) ==
    /\ pc' = [pc EXCEPT ![p] = label]
    /\ loc' = [loc EXCEPT ![p] = l]
    /\ ret' = NoResult

\* request p has called side channels and goes on with `go', unless one of
\* them has thrown to the caller (threw): then the call ends with that error
AfterSideChannels(p, op, threw, go) ==
    IF threw THEN Finish(p, Outcome(op, "InternalError", "side channel failed"))
    ELSE go

\* ------------------------------------------------------------ clock ----
Tick ==
    /\ now < MaxTime
    /\ now' = now + 1
    /\ ret' = NoResult
    /\ UNCHANGED <<store, auditLog, outbox, pc, loc, history>>

\* the process dies (SIGKILL, forced shutdown) while a request is between
\* two awaited statements: the remaining statements never run
Crash(p) ==
    /\ pc[p] # "idle"
    /\ Finish(p, [Outcome("crash", "crashed", "") EXCEPT !.tok = loc[p].tok, !.ott = loc[p].ott])
    /\ UNCHANGED <<store, auditLog, outbox, now, history>>

\* users.status is set out of band (no handler of the service writes it)
UserStatus == {"active", "suspended", "deleted"}

StatusChange ==
    /\ \E u \in DOMAIN users, st \in UserStatus :
         /\ users[u].status # st
         /\ users' = [users EXCEPT ![u].status = st]
    /\ ret' = NoResult
    /\ UNCHANGED <<oauthProviders, oauthSeq, refreshTokens, verificationTokens,
                   auditLog, outbox, now, pc, loc, history>>

\* raw refresh tokens a client can present: every token whose hash is stored,
\* and an access token (whose hash never is)
AccessProbe == GenerateAccessToken(1, "a@x.com", 0)
RefreshInputs ==
    {refreshTokens[i].tokenHash.sha256 : i \in DOMAIN refreshTokens} \cup {AccessProbe}

\* requests that have passed their checks and are about to insert a row
Pending(labels) == Cardinality({q \in Procs : pc[q] \in labels})

RoomForRefreshRow ==
    Len(refreshTokens) + Pending({"lg_insert", "rf_revoke", "rf_insert",
                                  "oa_update", "oa_email", "oa_create", "oa_link", "oa_issue"})
      < MaxRefreshRows

NewRefreshRow(userId, token) ==
    [id |-> Len(refreshTokens) + 1, userId |-> userId,
     tokenHash |-> HashToken(token), expiresAt |-> now + RefreshTTL,
     revokedAt |-> NULL]

\* -------------------------------------------------------------- login ----
LoginRejectedWithReason(reason) == Outcome("login", "UnauthorizedError", reason)

\* throw new UnauthorizedError('Invalid email or password'); the reason goes
\* to the audit metadata only
LoginRejected(reason) == Outcome("login", "UnauthorizedError", "Invalid email or password")

InactiveDeletedOnly(u) == users[u].status = "deleted"

\* if (user.status !== 'active')
Inactive(u) == users[u].status # "active"

Login(p) ==
    /\ Free(p)
    /\ \E email \in Emails, pw \in Passwords :
         LET u == UserByEmail(email)
             Ends(r) == Finish(p, [r EXCEPT !.email = email, !.pw = pw])
         IN
         IF u = 0 \/ users[u].passwordHash = NoHash
         THEN /\ auditLog' = LogAuditEvent(auditLog, NULL, "LOGIN_FAILED")
              /\ AfterSideChannels(p, "login", AuditThrows, Ends(LoginRejected("user_not_found")))
         ELSE IF ~VerifyPassword(pw, users[u].passwordHash)
         THEN /\ auditLog' = LogAuditEvent(auditLog, u, "LOGIN_FAILED")
              /\ AfterSideChannels(p, "login", AuditThrows, Ends(LoginRejected("invalid_password")))
         ELSE IF Inactive(u)
         THEN /\ auditLog' = auditLog
              /\ Ends(Outcome("login", "UnauthorizedError", "Account is not active"))
         ELSE /\ RoomForRefreshRow
              /\ auditLog' = auditLog
              /\ Goto(p, "lg_insert", [Loc0 EXCEPT !.uid = u, !.email = users[u].email,
                                                   !.pw = pw])
    /\ UNCHANGED <<store, outbox, now, history>>

LoginInsert(p) ==
    /\ pc[p] = "lg_insert"
    /\ LET tokens == GenerateTokenPair(loc[p].uid, loc[p].email, now) IN
       IF RefreshRowByHash(HashToken(tokens.refreshToken)) # 0
       THEN \* unique(token_hash) rejects the insert
            /\ Finish(p, Outcome("login", "DbError", "duplicate key"))
            /\ UNCHANGED <<refreshTokens, users, auditLog>>
       ELSE /\ refreshTokens' = Append(refreshTokens, NewRefreshRow(loc[p].uid, tokens.refreshToken))
            /\ users' = [users EXCEPT ![loc[p].uid].lastLoginAt = now]
            /\ auditLog' = LogAuditEvent(auditLog, loc[p].uid, "LOGIN")
            /\ AfterSideChannels(p, "login", AuditThrows,
                                 Finish(p, Issued("login", loc[p].uid, tokens.refreshToken, FALSE)))
    /\ UNCHANGED <<oauthProviders, oauthSeq, verificationTokens, outbox, now, history>>

\* ------------------------------------------------------------ refresh ----
\* select ... where token_hash = h and expires_at > now() limit 1
FindRefreshTokenAnyExpiry(h) == RefreshRowByHash(h)

FindRefreshToken(h) ==
    LET i == RefreshRowByHash(h)
    IN IF i # 0 /\ refreshTokens[i].expiresAt > now THEN i ELSE 0

RefreshRejectsAbsentOnly(i) == i = 0

\* if (!token || token.revokedAt) throw new UnauthorizedError(...)
RefreshRejects(i) == i = 0 \/ refreshTokens[i].revokedAt # NULL

\* the first statements of refreshAccessToken for a raw token drawn from
\* inputs
RefreshArrive(p, inputs) ==
    /\ Free(p)
    /\ \E tok \in inputs :
         LET i == FindRefreshToken(HashToken(tok)) IN
         IF RefreshRejects(i)
         THEN Finish(p, [Outcome("refresh", "UnauthorizedError", "Invalid or expired refresh token")
                           EXCEPT !.tok = tok])
         ELSE IF Inactive(refreshTokens[i].userId)
         THEN Finish(p, [Outcome("refresh", "UnauthorizedError", "User not found or inactive")
                           EXCEPT !.tok = tok])
         ELSE /\ RoomForRefreshRow
              /\ Goto(p, "rf_revoke",
                      [Loc0 EXCEPT !.tok = tok, !.row = i, !.uid = refreshTokens[i].userId,
                                   !.email = users[refreshTokens[i].userId].email])
    /\ UNCHANGED <<store, auditLog, outbox, now, history>>

RefreshFind(p) == RefreshArrive(p, RefreshInputs)

\* the access tokens the service has issued to its accounts up to now
AccessTokens ==
    {GenerateAccessToken(u, users[u].email, t) : u \in DOMAIN users, t \in 0..now}

\* an access token presented as a refresh token
RefreshFindAccess(p) == RefreshArrive(p, AccessTokens)

\* the refresh tokens of the sessions that have been revoked
RevokedTokens ==
    {refreshTokens[i].tokenHash.sha256 :
       i \in {j \in DOMAIN refreshTokens : refreshTokens[j].revokedAt # NULL}}

\* the refresh token of a revoked session presented again
RefreshFindRevoked(p) == RefreshArrive(p, RevokedTokens)

RefreshRevoke(p) ==
    /\ pc[p] = "rf_revoke"
    /\ LET tokens == GenerateTokenPair(loc[p].uid, loc[p].email, now) IN
       /\ refreshTokens' = [refreshTokens EXCEPT ![loc[p].row].revokedAt = now]
       /\ rotRevoked' = rotRevoked \cup {loc[p].row}
       /\ Goto(p, "rf_insert", [loc[p] EXCEPT !.newTok = tokens.refreshToken])
    /\ UNCHANGED <<users, oauthProviders, oauthSeq, verificationTokens,
                   auditLog, outbox, now, rotated, preReset, consumedOK, writes>>

RefreshInsert(p) ==
    /\ pc[p] = "rf_insert"
    /\ IF RefreshRowByHash(HashToken(loc[p].newTok)) # 0
       THEN /\ Finish(p, [Outcome("refresh", "DbError", "duplicate key") EXCEPT !.tok = loc[p].tok])
            /\ UNCHANGED <<refreshTokens, rotated, auditLog>>
       ELSE /\ refreshTokens' = Append(refreshTokens, NewRefreshRow(loc[p].uid, loc[p].newTok))
            /\ rotated' = rotated \cup {<<loc[p].row, Len(refreshTokens) + 1>>}
            /\ auditLog' = LogAuditEvent(auditLog, loc[p].uid, "TOKEN_REFRESH")
            /\ AfterSideChannels(p, "refresh", AuditThrows,
                 Finish(p, [Issued("refresh", loc[p].uid, loc[p].newTok, FALSE)
                              EXCEPT !.tok = loc[p].tok]))
    /\ UNCHANGED <<users, oauthProviders, oauthSeq, verificationTokens,
                   outbox, now, rotRevoked, preReset, consumedOK, writes>>

\* ------------------------------------------------------------- logout ----
LogoutMatchesHashOnly(r, h, userId) == r.tokenHash = h

\* where tokenHash = hashToken(refreshToken) and userId = userId
LogoutMatches(r, h, userId) == r.tokenHash = h /\ r.userId = userId

Logout(p) ==
    /\ Free(p)
    /\ \E tok \in RefreshInputs, userId \in DOMAIN users :
         /\ refreshTokens' =
              [i \in DOMAIN refreshTokens |->
                 IF LogoutMatches(refreshTokens[i], HashToken(tok), userId)
                 THEN [refreshTokens[i] EXCEPT !.revokedAt = now]
                 ELSE refreshTokens[i]]
         /\ auditLog' = LogAuditEvent(auditLog, userId, "LOGOUT")
         /\ AfterSideChannels(p, "logout", AuditThrows,
              Finish(p, [Outcome("logout", "ok", "Logged out successfully")
                           EXCEPT !.uid = userId, !.tok = tok]))
    /\ UNCHANGED <<users, oauthProviders, oauthSeq, verificationTokens,
                   outbox, now, history>>

\* ---------------------------------------------------- one-time tokens ----
\* one-time tokens a client can present: every stored one, and one never issued
OneTimeInputs == {verificationTokens[i].token : i \in DOMAIN verificationTokens} \cup {0}

\* generateToken(): 32 random bytes; the value is named by the row it lands in
GenerateToken == Len(verificationTokens) + 1

NewOneTimeRow(userId, type, ttl) ==
    [id |-> Len(verificationTokens) + 1, userId |-> userId, token |-> GenerateToken,
     tokenType |-> type, expiresAt |-> now + ttl, usedAt |-> NULL]

NoWrites == [pw |-> 0, used |-> 0, verified |-> 0]

\* select ... where token = t and token_type = type and expires_at > now() limit 1
FindOneTimeToken(token, type) ==
    LET i == OneTimeRow(token, type)
    IN IF i # 0 /\ verificationTokens[i].expiresAt > now THEN i ELSE 0

OneTimeRejectsAbsentOnly(i) == i = 0

\* if (!token || token.usedAt) throw new ValidationError(...)
OneTimeRejects(i) == i = 0 \/ verificationTokens[i].usedAt # NULL

\* ----------------------------------------------------------- register ----
EmailTakenNever(email) == FALSE

\* users.email is unique: the insert of a second row with the email fails
EmailTaken(email) == UserByEmail(email) # 0

RegisterFind(p) ==
    /\ Free(p)
    /\ Len(users) + Pending({"rg_insert", "oa_create"}) < MaxUsers
    /\ Len(verificationTokens) + Pending({"rg_insert", "rg_token", "rq_insert"}) < MaxOneTime
    /\ \E email \in Emails, pw \in Passwords :
         IF ~ValidatePasswordStrength(pw).valid
         THEN Finish(p, [Outcome("register", "ValidationError",
                                 Join(ValidatePasswordStrength(pw).errors))
                           EXCEPT !.email = email, !.pw = pw])
         ELSE IF UserByEmail(email) # 0
         THEN Finish(p, [Outcome("register", "ConflictError", "User with this email already exists")
                           EXCEPT !.email = email, !.pw = pw])
         ELSE Goto(p, "rg_insert", [Loc0 EXCEPT !.email = email, !.pw = pw])
    /\ UNCHANGED <<store, auditLog, outbox, now, history>>

NewUserVerified(email, verified, hash) ==
    [id |-> Len(users) + 1, email |-> email, emailVerified |-> TRUE,
     passwordHash |-> hash, status |-> "active", lastLoginAt |-> NULL]

NewUser(email, verified, hash) ==
    [id |-> Len(users) + 1, email |-> email, emailVerified |-> verified,
     passwordHash |-> hash, status |-> "active", lastLoginAt |-> NULL]

RegisterInsert(p) ==
    /\ pc[p] = "rg_insert"
    /\ IF EmailTaken(loc[p].email)
       THEN \* unique(email) rejects the insert
            /\ Finish(p, [Outcome("register", "DbError", "duplicate key")
                             EXCEPT !.email = loc[p].email, !.pw = loc[p].pw])
            /\ UNCHANGED users
       ELSE /\ users' = Append(users, NewUser(loc[p].email, FALSE, HashPassword(loc[p].pw)))
            /\ Goto(p, "rg_token", [loc[p] EXCEPT !.uid = Len(users) + 1])
    /\ UNCHANGED <<oauthProviders, oauthSeq, refreshTokens, verificationTokens,
                   auditLog, outbox, now, history>>

RegisterToken(p) ==
    /\ pc[p] = "rg_token"
    /\ verificationTokens' =
         Append(verificationTokens, NewOneTimeRow(loc[p].uid, "email_verification", VerifyTTL))
    /\ writes' = Append(writes, NoWrites)
    /\ outbox' = SendMail(outbox, loc[p].uid, "verification", GenerateToken)
    /\ auditLog' = LogAuditEvent(auditLog, loc[p].uid, "REGISTER")
    /\ AfterSideChannels(p, "register", MailThrows \/ AuditThrows,
         Finish(p, [Outcome("register", "ok", "Registration successful")
                      EXCEPT !.uid = loc[p].uid, !.email = loc[p].email, !.pw = loc[p].pw]))
    /\ UNCHANGED <<users, oauthProviders, oauthSeq, refreshTokens,
                   now, rotated, rotRevoked, preReset, consumedOK>>

\* ------------------------------------------------------- verify email ----
VerifyFind(p) ==
    /\ Free(p)
    /\ \E ott \in OneTimeInputs :
         LET i == FindOneTimeToken(ott, "email_verification") IN
         IF OneTimeRejects(i)
         THEN Finish(p, [Outcome("verifyEmail", "ValidationError",
                                 "Invalid or expired verification token") EXCEPT !.ott = ott])
         ELSE Goto(p, "ve_set", [Loc0 EXCEPT !.ott = ott, !.row = i,
                                             !.uid = verificationTokens[i].userId])
    /\ UNCHANGED <<store, auditLog, outbox, now, history>>

VerifySetVerified(p) ==
    /\ pc[p] = "ve_set"
    /\ users' = [users EXCEPT ![loc[p].uid].emailVerified = TRUE]
    /\ writes' = [writes EXCEPT ![loc[p].row].verified = @ + 1]
    /\ Goto(p, "ve_mark", loc[p])
    /\ UNCHANGED <<oauthProviders, oauthSeq, refreshTokens, verificationTokens,
                   auditLog, outbox, now, rotated, rotRevoked, preReset, consumedOK>>

VerifyMarkUsed(p) ==
    /\ pc[p] = "ve_mark"
    /\ verificationTokens' = [verificationTokens EXCEPT ![loc[p].row].usedAt = now]
    /\ writes' = [writes EXCEPT ![loc[p].row].used = @ + 1]
    /\ consumedOK' = consumedOK \cup {loc[p].ott}
    /\ outbox' = SendMail(outbox, loc[p].uid, "welcome", 0)
    /\ auditLog' = LogAuditEvent(auditLog, loc[p].uid, "EMAIL_VERIFY")
    /\ AfterSideChannels(p, "verifyEmail", MailThrows \/ AuditThrows,
         Finish(p, [Outcome("verifyEmail", "ok", "Email verified successfully")
                      EXCEPT !.uid = loc[p].uid, !.ott = loc[p].ott]))
    /\ UNCHANGED <<users, oauthProviders, oauthSeq, refreshTokens,
                   now, rotated, rotRevoked, preReset>>

\* ----------------------------------------------------- password reset ----
ForgotOp == "requestPasswordReset"

ResetAcknowledgedRevealing(found) ==
    Outcome("requestPasswordReset", "ok",
            IF found THEN "If the email exists, a password reset link has been sent"
            ELSE "User not found")

\* return { message: 'If the email exists, a password reset link has been sent' }
ResetAcknowledged(found) ==
    Outcome("requestPasswordReset", "ok",
            "If the email exists, a password reset link has been sent")

RequestResetFind(p) ==
    /\ Free(p)
    /\ Len(verificationTokens) + Pending({"rg_insert", "rg_token", "rq_insert"}) < MaxOneTime
    /\ \E email \in Emails :
         LET u == UserByEmail(email) IN
         IF u = 0
         THEN Finish(p, [ResetAcknowledged(FALSE) EXCEPT !.email = email])
         ELSE Goto(p, "rq_insert", [Loc0 EXCEPT !.uid = u, !.email = email])
    /\ UNCHANGED <<store, auditLog, outbox, now, history>>

RequestResetInsert(p) ==
    /\ pc[p] = "rq_insert"
    /\ verificationTokens' =
         Append(verificationTokens, NewOneTimeRow(loc[p].uid, "password_reset", ResetTTL))
    /\ writes' = Append(writes, NoWrites)
    /\ outbox' = SendMail(outbox, loc[p].uid, "password_reset", GenerateToken)
    /\ auditLog' = LogAuditEvent(auditLog, loc[p].uid, "PASSWORD_RESET_REQUEST")
    /\ AfterSideChannels(p, ForgotOp, MailThrows \/ AuditThrows,
         Finish(p, [ResetAcknowledged(TRUE) EXCEPT !.email = loc[p].email]))
    /\ UNCHANGED <<users, oauthProviders, oauthSeq, refreshTokens,
                   now, rotated, rotRevoked, preReset, consumedOK>>

ResetPolicySkipped(pw) == FALSE

\* if (!validatePasswordStrength(newPassword).valid) throw new ValidationError(...)
ResetPolicyRejects(pw) == ~ValidatePasswordStrength(pw).valid

ResetFind(p) ==
    /\ Free(p)
    /\ \E ott \in OneTimeInputs, pw \in Passwords :
         LET i == FindOneTimeToken(ott, "password_reset") IN
         IF ResetPolicyRejects(pw)
         THEN Finish(p, [Outcome("resetPassword", "ValidationError",
                                 Join(ValidatePasswordStrength(pw).errors))
                           EXCEPT !.ott = ott, !.pw = pw])
         ELSE IF OneTimeRejects(i)
         THEN Finish(p, [Outcome("resetPassword", "ValidationError",
                                 "Invalid or expired reset token")
                           EXCEPT !.ott = ott, !.pw = pw])
         ELSE Goto(p, "rp_pw", [Loc0 EXCEPT !.ott = ott, !.row = i, !.pw = pw,
                                            !.uid = verificationTokens[i].userId])
    /\ UNCHANGED <<store, auditLog, outbox, now, history>>

SetPasswordOfAll(us, userId, hash) == [i \in DOMAIN us |-> [us[i] EXCEPT !.passwordHash = hash]]

\* update users set password_hash = ... where id = resetToken.userId
SetPassword(us, userId, hash) == [us EXCEPT ![userId].passwordHash = hash]

ResetSetPassword(p) ==
    /\ pc[p] = "rp_pw"
    /\ users' = SetPassword(users, loc[p].uid, HashPassword(loc[p].pw))
    /\ writes' = [writes EXCEPT ![loc[p].row].pw = @ + 1]
    /\ Goto(p, "rp_mark", loc[p])
    /\ UNCHANGED <<oauthProviders, oauthSeq, refreshTokens, verificationTokens,
                   auditLog, outbox, now, rotated, rotRevoked, preReset, consumedOK>>

\* a reset that would retire every reset token of the account
MarkUsedOfAccount(tokens, row) ==
    [i \in DOMAIN tokens |->
       IF tokens[i].userId = tokens[row].userId /\ tokens[i].tokenType = tokens[row].tokenType
       THEN [tokens[i] EXCEPT !.usedAt = now]
       ELSE tokens[i]]

\* update verification_tokens set used_at = now() where id = resetToken.id
MarkUsed(tokens, row) == [tokens EXCEPT ![row].usedAt = now]

ResetMarkUsed(p) ==
    /\ pc[p] = "rp_mark"
    /\ verificationTokens' = MarkUsed(verificationTokens, loc[p].row)
    /\ writes' = [writes EXCEPT ![loc[p].row].used = @ + 1]
    /\ Goto(p, "rp_revoke", loc[p])
    /\ UNCHANGED <<users, oauthProviders, oauthSeq, refreshTokens,
                   auditLog, outbox, now, rotated, rotRevoked, preReset, consumedOK>>

ResetRevokesExpiredOnly(r, userId) == r.userId = userId /\ r.expiresAt <= now

\* update refresh_tokens set revoked_at = now() where user_id = resetToken.userId
ResetRevokes(r, userId) == r.userId = userId

ResetRevokeAll(p) ==
    /\ pc[p] = "rp_revoke"
    /\ refreshTokens' =
         [i \in DOMAIN refreshTokens |->
            IF ResetRevokes(refreshTokens[i], loc[p].uid)
            THEN [refreshTokens[i] EXCEPT !.revokedAt = now]
            ELSE refreshTokens[i]]
    /\ preReset' = preReset \cup
         {i \in DOMAIN refreshTokens : refreshTokens[i].userId = loc[p].uid}
    /\ consumedOK' = consumedOK \cup {loc[p].ott}
    /\ auditLog' = LogAuditEvent(auditLog, loc[p].uid, "PASSWORD_RESET")
    /\ AfterSideChannels(p, "resetPassword", AuditThrows,
         Finish(p, [Outcome("resetPassword", "ok", "Password reset successfully")
                      EXCEPT !.uid = loc[p].uid, !.ott = loc[p].ott]))
    /\ UNCHANGED <<users, oauthProviders, oauthSeq, verificationTokens,
                   outbox, now, rotated, rotRevoked, writes>>

\* ------------------------------------------- external identity (OAuth) ----
AccountByEmailNever(email) == 0

\* select ... from users where email = profile.email limit 1
AccountByEmail(email) == UserByEmail(email)

\* the first statement of handleOAuthCallback for a profile whose email is
\* drawn from emails
OAuthArrive(p, emails) ==
    /\ Free(p)
    /\ \E provider \in Providers, providerId \in ProviderIds,
          email \in emails, ptoken \in ProviderTokens :
         LET e == ProviderRow(provider, providerId)
             l == [Loc0 EXCEPT !.provider = provider, !.providerId = providerId,
                               !.email = email, !.ptoken = ptoken]
         IN IF e # 0
            THEN /\ RoomForRefreshRow
                 /\ Goto(p, "oa_update",
                         [l EXCEPT !.existing = e, !.linked = TRUE,
                                   !.uid = (CHOOSE r \in oauthProviders : r.id = e).userId])
            ELSE /\ RoomForRefreshRow
                 /\ oauthSeq + Pending({"oa_email", "oa_create", "oa_link"}) < MaxLinks
                 /\ Len(users) + Pending({"rg_insert", "oa_email", "oa_create"}) < MaxUsers
                 /\ Goto(p, "oa_email", l)
    /\ UNCHANGED <<store, auditLog, outbox, now, history>>

\* a profile that carries an email address
OAuthFind(p) == OAuthArrive(p, Emails)

\* a profile without an email address (email || '')
OAuthFindBlank(p) == OAuthArrive(p, OAuthEmails \ Emails)

\* the owning user is selected by id, then the provider tokens are overwritten
OAuthUpdate(p) ==
    /\ pc[p] = "oa_update"
    /\ oauthProviders' =
         {IF r.id = loc[p].existing THEN [r EXCEPT !.accessToken = loc[p].ptoken] ELSE r :
            r \in oauthProviders}
    /\ Goto(p, "oa_issue", loc[p])
    /\ UNCHANGED <<users, oauthSeq, refreshTokens, verificationTokens,
                   auditLog, outbox, now, history>>

OAuthEmail(p) ==
    /\ pc[p] = "oa_email"
    /\ LET u == AccountByEmail(loc[p].email) IN
       IF u # 0
       THEN Goto(p, "oa_link", [loc[p] EXCEPT !.uid = u])
       ELSE Goto(p, "oa_create", loc[p])
    /\ UNCHANGED <<store, auditLog, outbox, now, history>>

OAuthCreate(p) ==
    /\ pc[p] = "oa_create"
    /\ IF EmailTaken(loc[p].email)
       THEN \* unique(email) rejects the insert
            /\ Finish(p, Outcome("oauth", "DbError", "duplicate key"))
            /\ UNCHANGED <<users, auditLog>>
       ELSE /\ users' = Append(users, NewUser(loc[p].email, TRUE, NoHash))
            /\ auditLog' = LogAuditEvent(auditLog, Len(users) + 1, "REGISTER")
            /\ AfterSideChannels(p, "oauth", AuditThrows,
                 Goto(p, "oa_link", [loc[p] EXCEPT !.uid = Len(users) + 1, !.isNewUser = TRUE]))
    /\ UNCHANGED <<oauthProviders, oauthSeq, refreshTokens, verificationTokens,
                   outbox, now, history>>

NewProviderRow(userId, provider, providerId, email, ptoken) ==
    [id |-> oauthSeq + 1, userId |-> userId, provider |-> provider,
     providerUserId |-> providerId, providerEmail |-> email, accessToken |-> ptoken]

OAuthLink(p) ==
    /\ pc[p] = "oa_link"
    /\ IF ProviderRow(loc[p].provider, loc[p].providerId) # 0
       THEN \* unique(provider, provider_user_id) rejects the insert
            /\ Finish(p, Outcome("oauth", "DbError", "duplicate key"))
            /\ UNCHANGED <<oauthProviders, oauthSeq, auditLog>>
       ELSE /\ oauthProviders' = oauthProviders \cup
                 {NewProviderRow(loc[p].uid, loc[p].provider, loc[p].providerId,
                                 loc[p].email, loc[p].ptoken)}
            /\ oauthSeq' = oauthSeq + 1
            /\ auditLog' = LogAuditEvent(auditLog, loc[p].uid, "OAUTH_LINK")
            /\ AfterSideChannels(p, "oauth", AuditThrows, Goto(p, "oa_issue", loc[p]))
    /\ UNCHANGED <<users, refreshTokens, verificationTokens, outbox, now, history>>

OAuthIssue(p) ==
    /\ pc[p] = "oa_issue"
    /\ LET tokens == GenerateTokenPair(loc[p].uid, users[loc[p].uid].email, now) IN
       IF RefreshRowByHash(HashToken(tokens.refreshToken)) # 0
       THEN \* unique(token_hash) rejects the insert
            /\ Finish(p, Outcome("oauth", "DbError", "duplicate key"))
            /\ UNCHANGED <<refreshTokens, users, auditLog>>
       ELSE /\ refreshTokens' = Append(refreshTokens, NewRefreshRow(loc[p].uid, tokens.refreshToken))
            /\ users' = [users EXCEPT ![loc[p].uid].lastLoginAt = now]
            /\ auditLog' = LogAuditEvent(auditLog, loc[p].uid, "LOGIN")
            /\ AfterSideChannels(p, "oauth", AuditThrows,
                 Finish(p, Issued("oauth", loc[p].uid, tokens.refreshToken, loc[p].isNewUser)))
    /\ UNCHANGED <<oauthProviders, oauthSeq, verificationTokens, outbox, now, history>>

\* ------------------------------------------------------------- unlink ----
UnlinkFind(p) ==
    /\ Free(p)
    /\ \E provider \in Providers, providerId \in ProviderIds :
         LET e == ProviderRow(provider, providerId) IN
         IF e = 0
         THEN Finish(p, [Outcome("unlink", "false", "OAuth provider not found")
                           EXCEPT !.provider = provider, !.providerId = providerId])
         ELSE Goto(p, "ul_delete", [Loc0 EXCEPT !.provider = provider, !.providerId = providerId,
                                                !.existing = e,
                                                !.uid = (CHOOSE r \in oauthProviders : r.id = e).userId])
    /\ UNCHANGED <<store, auditLog, outbox, now, history>>

UnlinkedNone(rows, id) == rows

\* delete from oauth_providers where id = existingProvider.id
Unlinked(rows, id) == {r \in rows : r.id # id}

\* an unlink that would also sign the account out
UnlinkDeleteAndSignOut(p) ==
    /\ pc[p] = "ul_delete"
    /\ oauthProviders' = Unlinked(oauthProviders, loc[p].existing)
    /\ refreshTokens' =
         [i \in DOMAIN refreshTokens |->
            IF refreshTokens[i].userId = loc[p].uid
            THEN [refreshTokens[i] EXCEPT !.revokedAt = now]
            ELSE refreshTokens[i]]
    /\ auditLog' = LogAuditEvent(auditLog, loc[p].uid, "OAUTH_UNLINK")
    /\ AfterSideChannels(p, "unlink", AuditThrows,
         Finish(p, [Outcome("unlink", "true", "OAuth provider unlinked")
                      EXCEPT !.uid = loc[p].uid, !.provider = loc[p].provider,
                             !.providerId = loc[p].providerId]))
    /\ UNCHANGED <<users, oauthSeq, verificationTokens, outbox, now, history>>

UnlinkDelete(p) ==
    /\ pc[p] = "ul_delete"
    /\ oauthProviders' = Unlinked(oauthProviders, loc[p].existing)
    /\ auditLog' = LogAuditEvent(auditLog, loc[p].uid, "OAUTH_UNLINK")
    /\ AfterSideChannels(p, "unlink", AuditThrows,
         Finish(p, [Outcome("unlink", "true", "OAuth provider unlinked")
                      EXCEPT !.uid = loc[p].uid, !.provider = loc[p].provider,
                             !.providerId = loc[p].providerId]))
    /\ UNCHANGED <<users, oauthSeq, refreshTokens, verificationTokens,
                   outbox, now, history>>

\* -------------------------------------------------------- verifyToken ----
TokenKinds == {"access", "refresh"}

\* the tokens generateAccessToken and generateRefreshToken can have returned
\* up to now
SignedTokens ==
    {Encoded([typ |-> k, userId |-> u, email |-> email, iat |-> t]) :
       k \in TokenKinds, u \in DOMAIN users, email \in Emails, t \in 0..now}

\* what a caller can present: a token of the service; one signed with another
\* key; one signed with the key of the service for another issuer or
\* audience; one of the service whose payload or expiry was altered after
\* signing
PresentedTokens ==
    SignedTokens
    \cup {JwtSignWith("other", w.payload, w.exp - w.iat, w.iss, w.aud, w.iat) : w \in SignedTokens}
    \cup {JwtSignWith(Secret, w.payload, w.exp - w.iat, iss, aud, w.iat) :
            w \in SignedTokens, iss \in {Issuer, "other"}, aud \in {Audience, "other"}}
    \cup {[w EXCEPT !.payload.userId = u] : w \in SignedTokens, u \in DOMAIN users}
    \cup {[w EXCEPT !.exp = MaxTime + 1] : w \in SignedTokens}

\* a caller applies verifyToken to the token it was given
VerifyPresented(p) ==
    /\ Free(p)
    /\ \E w \in PresentedTokens :
         LET v == VerifyToken(w, now) IN
         IF v.ok
         THEN Finish(p, [Outcome("verifyToken", "ok", "")
                           EXCEPT !.tok = w, !.decoded = v.payload])
         ELSE Finish(p, [Outcome("verifyToken", "UnauthorizedError", v.error) EXCEPT !.tok = w])
    /\ UNCHANGED <<store, auditLog, outbox, now, history>>

\* --------------------------------------------- validatePasswordStrength ----
PasswordLengths == {4, 7, 8, 9}
PasswordShapes ==
    {PasswordShape(len, upper, lower, digit, special) :
       len \in PasswordLengths, upper \in BOOLEAN, lower \in BOOLEAN,
       digit \in BOOLEAN, special \in BOOLEAN}

\* a caller applies validatePasswordStrength to a password
ValidatePresented(p) ==
    /\ Free(p)
    /\ \E s \in PasswordShapes :
         LET v == ValidateShape(s) IN
         Finish(p, [Outcome("validatePasswordStrength", IF v.valid THEN "valid" ELSE "invalid",
                            Join(v.errors))
                      EXCEPT !.pw = s, !.errors = v.errors])
    /\ UNCHANGED <<store, auditLog, outbox, now, history>>

\* ------------------------------------------- authenticate (middleware) ----
NoHeader == NoToken

\* a token signed for an account whose users row no longer exists
GhostTokens ==
    {Encoded([typ |-> "access", userId |-> MaxUsers + 1, email |-> "a@x.com", iat |-> t]) :
       t \in 0..now}

\* the tokens the service has issued to its accounts up to now
IssuedTokens ==
    {Encoded([typ |-> k, userId |-> u, email |-> users[u].email, iat |-> t]) :
       k \in TokenKinds, u \in DOMAIN users, t \in 0..now}

\* req.headers.authorization: missing, or 'Bearer ' followed by a token of
\* the service, by one signed with another key, by one signed for another
\* audience, or by one of an account that is gone
AuthorizationHeaders ==
    IssuedTokens
    \cup {JwtSignWith("other", w.payload, w.exp - w.iat, w.iss, w.aud, w.iat) : w \in IssuedTokens}
    \cup {JwtSignWith(Secret, w.payload, w.exp - w.iat, w.iss, "other", w.iat) : w \in IssuedTokens}
    \cup GhostTokens \cup {NoHeader}

NotAccessNever(payload) == FALSE

\* if (payload.type !== 'access')
NotAccess(payload) == payload.typ # "access"

\* a middleware that would also look for a live session of the account
UserMissingOrSignedOut(userId) ==
    \/ userId \notin DOMAIN users
    \/ ~\E i \in DOMAIN refreshTokens :
          /\ refreshTokens[i].userId = userId
          /\ refreshTokens[i].revokedAt = NULL

\* const [user] = await db.select(...).from(users).where(eq(users.id,
\* payload.userId)).limit(1); if (!user)
UserMissing(userId) == userId \notin DOMAIN users

AuthenticateWith(p, headers) ==
    /\ Free(p)
    /\ \E h \in headers :
         LET Refused(message) ==
               Finish(p, [Outcome("authenticate", "UnauthorizedError", message) EXCEPT !.tok = h])
         IN
         IF h = NoHeader
         THEN Finish(p, Outcome("authenticate", "UnauthorizedError", "No token provided"))
         ELSE LET v == VerifyToken(h, now) IN
              IF ~v.ok THEN Refused(v.error)
              ELSE IF NotAccess(v.payload) THEN Refused("Invalid token type")
              ELSE IF UserMissing(v.payload.userId) THEN Refused("User not found")
              ELSE IF Inactive(v.payload.userId) THEN Refused("Account is not active")
              ELSE Finish(p, [Outcome("authenticate", "ok", "")
                                EXCEPT !.tok = h, !.uid = v.payload.userId])
    /\ UNCHANGED <<store, auditLog, outbox, now, history>>

Authenticate(p) == AuthenticateWith(p, AuthorizationHeaders)

\* the access tokens that were issued together with the sessions on record
SessionAccessTokens ==
    {Encoded(GenerateAccessToken(refreshTokens[i].userId,
                                 users[refreshTokens[i].userId].email,
                                 refreshTokens[i].tokenHash.sha256.iat)) :
       i \in DOMAIN refreshTokens}

\* a request that carries the access token of one of its account's sessions
AuthenticateSession(p) == AuthenticateWith(p, SessionAccessTokens)

\* ------------------------------------------- rate limiting (middleware) ----
\* the keys express-rate-limit counts by: the client's address
Keys == {"ip1", "ip2"}

\* points of the RateLimiterRedis, and max of the limiter that uses the store
points == 2

\* duration of the RateLimiterRedis: the length of a window
duration == 2

\* a key Redis does not hold
NoKey == [consumedPoints |-> 0, expiresAt |-> NULL]

NoHit == [key |-> "", nth |-> 0, totalHits |-> 0, resetTime |-> NULL, limited |-> FALSE]

\* Redis holds the key and it has not expired
LiveKey(key) == limiterKeys[key].expiresAt # NULL /\ now < limiterKeys[key].expiresAt

\* limiter.consume(key, 1) in Redis: the counter of the key is incremented,
\* and a key that is new or expired starts a window of its own
Consumed(key) ==
    IF LiveKey(key)
    THEN [limiterKeys[key] EXCEPT !.consumedPoints = @ + 1]
    ELSE [consumedPoints |-> 1, expiresAt |-> now + duration]

\* the RateLimiterRes that consume resolves or rejects with
RateLimiterRes(k) ==
    [consumedPoints |-> k.consumedPoints,
     remainingPoints |-> IF k.consumedPoints < points THEN points - k.consumedPoints ELSE 0,
     msBeforeNext |-> k.expiresAt - now]

\* consume rejects when more than points have been consumed in the window
ConsumeRejects(res) == res.consumedPoints > points

\* RateLimiterFlexibleStore.increment: the try and the catch branch
IncrementResponse(res) ==
    IF ConsumeRejects(res)
    THEN [totalHits |-> points, resetTime |-> now + res.msBeforeNext]
    ELSE [totalHits |-> points - res.remainingPoints, resetTime |-> now + res.msBeforeNext]

\* rateLimit({max: points, store}): the handler runs when totalHits > max
OverLimit(response) == response.totalHits > points

\* one request that passes through the limiter
Increment(key) ==
    /\ limiterKeys[key].consumedPoints < points + 2
    /\ LET k == Consumed(key)
           response == IncrementResponse(RateLimiterRes(k))
       IN /\ limiterKeys' = [limiterKeys EXCEPT ![key] = k]
          /\ hit' = [key |-> key, nth |-> k.consumedPoints,
                     totalHits |-> response.totalHits, resetTime |-> response.resetTime,
                     limited |-> OverLimit(response)]
    /\ UNCHANGED <<store, auditLog, outbox, now, pc, loc, ret, history>>

\* ------------------------------------------------------- the web client ----
\* API requests of the single-page client that are under way together
Reqs == {1, 2}

\* localStorage without accessToken and refreshToken
NoTokens == [accessToken |-> NoToken, refreshToken |-> NoToken]

\* no request
NoReq ==
    [at |-> "none", url |-> "", retry |-> FALSE, authorization |-> NoToken,
     status |-> 0, held |-> NoToken, got |-> NoTokens, srv |-> 0,
     refreshes |-> 0, replays |-> 0]

\* const publicEndpoints = [...]
PublicEndpoints == {"/auth/verify-email", "/auth/login", "/auth/register", "/auth/refresh"}

\* the calls of authApi made in the model: getMe and login
Urls == {"/auth/me", "/auth/login"}

\* publicEndpoints.some((ep) => originalRequest?.url?.includes(ep))
IsPublicEndpoint(url) == url \in PublicEndpoints

\* an interceptor without the _retry test
AlreadyRetriedNever(r) == FALSE

\* originalRequest._retry
AlreadyRetried(r) == req[r].retry

\* the access token generateTokenPair returns beside a refresh token
AccessTwin(token) == [token EXCEPT !.typ = "access"]

\* config.headers.Authorization = `Bearer ${token}`, when there is a token
Bearer(token) == IF token = NoToken THEN NoHeader ELSE Encoded(token)

\* the service and the rate-limit store are left alone by a step of the browser
BrowserOnly ==
    UNCHANGED <<store, auditLog, outbox, now, pc, loc, ret, history, edge>>

\* api.get / api.post: the request interceptor adds the stored access token
Send(r) ==
    /\ req[r].at = "none"
    /\ \E url \in Urls :
         req' = [req EXCEPT ![r] = [NoReq EXCEPT !.at = "sent", !.url = url,
                                                 !.authorization = localStorage.accessToken]]
    /\ UNCHANGED localStorage
    /\ BrowserOnly

\* the response to a request: 2xx resolves it, an error goes to the
\* response interceptor
Responded(r, ok) ==
    [req EXCEPT ![r].at = IF ok THEN "resolved" ELSE "failed",
                ![r].status = IF ok THEN 200 ELSE 401]

\* GET /auth/me served behind the authenticate middleware
ServeMe(r) ==
    /\ req[r].at = "sent"
    /\ req[r].url = "/auth/me"
    /\ \E p \in Procs : AuthenticateWith(p, {Bearer(req[r].authorization)})
    /\ req' = Responded(r, ret'.status = "ok")
    /\ UNCHANGED <<edge, localStorage>>

\* POST /auth/login with credentials the service refuses
ServeLogin(r) ==
    /\ req[r].at = "sent"
    /\ req[r].url = "/auth/login"
    /\ \E p \in Procs : Login(p)
    /\ ret'.status = "UnauthorizedError"
    /\ req' = Responded(r, FALSE)
    /\ UNCHANGED <<edge, localStorage>>

\* the error handler of the response interceptor up to its await: the test
\* of the status, of _retry and of the url, the read of localStorage and the
\* send of POST /auth/refresh; or the rejection with the original error
InterceptError(r) ==
    /\ req[r].at = "failed"
    /\ IF req[r].status = 401 /\ ~AlreadyRetried(r) /\ ~IsPublicEndpoint(req[r].url)
       THEN IF localStorage.refreshToken # NoToken
            THEN req' = [req EXCEPT ![r].retry = TRUE,
                                    ![r].held = localStorage.refreshToken,
                                    ![r].refreshes = @ + 1,
                                    ![r].at = "refreshing"]
            ELSE req' = [req EXCEPT ![r].retry = TRUE, ![r].at = "rejected"]
       ELSE req' = [req EXCEPT ![r].at = "rejected"]
    /\ UNCHANGED localStorage
    /\ BrowserOnly

\* the response to POST /auth/refresh as it reaches request r
Answered(r, response) ==
    IF response.status = "ok"
    THEN [req[r] EXCEPT !.at = "refreshed", !.srv = 0,
                        !.got = [accessToken |-> AccessTwin(response.refreshToken),
                                 refreshToken |-> response.refreshToken]]
    ELSE [req[r] EXCEPT !.at = "refreshFailed", !.srv = 0]

\* POST /auth/refresh reaches the service: the first statements of
\* refreshAccessToken for the token the interceptor read
ServeRefresh(r) ==
    /\ req[r].at = "refreshing"
    /\ req[r].srv = 0
    /\ \E p \in Procs :
         /\ RefreshArrive(p, {req[r].held})
         /\ req' = [req EXCEPT ![r] = IF pc'[p] = "idle" THEN Answered(r, ret')
                                      ELSE [req[r] EXCEPT !.srv = p]]
    /\ UNCHANGED <<edge, localStorage>>

\* the revoke statement of a refresh under way
ServeRefreshRevoke(p) ==
    /\ RefreshRevoke(p)
    /\ UNCHANGED <<edge, browser>>

\* the insert of the new row, and the response to the request that waits
ServeRefreshInsert(p) ==
    /\ RefreshInsert(p)
    /\ req' = [r \in Reqs |-> IF req[r].srv = p THEN Answered(r, ret') ELSE req[r]]
    /\ UNCHANGED <<edge, localStorage>>

\* after the await: both setItem calls, the new Authorization header and
\* return api(originalRequest)
StoreAndReplay(r) ==
    /\ req[r].at = "refreshed"
    /\ localStorage' = req[r].got
    /\ req' = [req EXCEPT ![r].at = "sent", ![r].replays = @ + 1,
                           ![r].authorization = req[r].got.accessToken]
    /\ BrowserOnly

\* catch: both removeItem calls, then Promise.reject(error)
ClearTokens(r) ==
    /\ req[r].at = "refreshFailed"
    /\ localStorage' = NoTokens
    /\ req' = [req EXCEPT ![r].at = "rejected"]
    /\ BrowserOnly

\* ------------------------------------------------------ initial states ----
\* no request has reached the rate limiter and the browser holds no session
NoTraffic ==
    /\ limiterKeys = [k \in Keys |-> NoKey]
    /\ hit = NoHit
    /\ localStorage = NoTokens
    /\ req = [r \in Reqs |-> NoReq]

NoProcs ==
    /\ pc = [p \in Procs |-> "idle"]
    /\ loc = [p \in Procs |-> Loc0]
    /\ ret = NoResult

NoHistory ==
    /\ rotated = {}
    /\ rotRevoked = {}
    /\ preReset = {}
    /\ consumedOK = {}

\* the store right after the migrations have run: every table is empty.
\* No operation reads auth_audit_log and logAuditEvent swallows a failed
\* insert, so the initial states below run with the audit insert failing.
InitEmpty ==
    /\ users = <<>>
    /\ oauthProviders = {}
    /\ oauthSeq = 0
    /\ refreshTokens = <<>>
    /\ verificationTokens = <<>>
    /\ writes = <<>>
    /\ auditLog = <<>>
    /\ auditUp = FALSE
    /\ mailUp = FALSE
    /\ outbox = <<>>
    /\ now = 0
    /\ NoProcs
    /\ NoTraffic
    /\ NoHistory

\* the empty store, with the audit table available or not
InitFresh ==
    /\ users = <<>>
    /\ oauthProviders = {}
    /\ oauthSeq = 0
    /\ refreshTokens = <<>>
    /\ verificationTokens = <<>>
    /\ writes = <<>>
    /\ auditLog = <<>>
    /\ auditUp \in BOOLEAN
    /\ mailUp = FALSE
    /\ outbox = <<>>
    /\ now = 0
    /\ NoProcs
    /\ NoTraffic
    /\ NoHistory

\* the store after Register("a@x.com", "Str0ng!pw") has returned
InitRegistered ==
    /\ users = <<[id |-> 1, email |-> "a@x.com", emailVerified |-> FALSE,
                  passwordHash |-> HashPassword("Str0ng!pw"), status |-> "active",
                  lastLoginAt |-> NULL]>>
    /\ oauthProviders = {}
    /\ oauthSeq = 0
    /\ refreshTokens = <<>>
    /\ verificationTokens =
         <<[id |-> 1, userId |-> 1, token |-> 1, tokenType |-> "email_verification",
            expiresAt |-> VerifyTTL, usedAt |-> NULL]>>
    /\ writes = <<NoWrites>>
    /\ auditLog = <<>>
    /\ auditUp = FALSE
    /\ mailUp = FALSE
    /\ outbox = <<>>
    /\ now = 0
    /\ NoProcs
    /\ NoTraffic
    /\ NoHistory

\* the store after Register("a@x.com", "Str0ng!pw") has returned, with the
\* audit table available
InitRegisteredAudited ==
    /\ users = <<[id |-> 1, email |-> "a@x.com", emailVerified |-> FALSE,
                  passwordHash |-> HashPassword("Str0ng!pw"), status |-> "active",
                  lastLoginAt |-> NULL]>>
    /\ oauthProviders = {}
    /\ oauthSeq = 0
    /\ refreshTokens = <<>>
    /\ verificationTokens =
         <<[id |-> 1, userId |-> 1, token |-> 1, tokenType |-> "email_verification",
            expiresAt |-> VerifyTTL, usedAt |-> NULL]>>
    /\ writes = <<NoWrites>>
    /\ auditLog = <<[userId |-> 1, eventType |-> "REGISTER"]>>
    /\ auditUp = TRUE
    /\ mailUp = FALSE
    /\ outbox = <<>>
    /\ now = 0
    /\ NoProcs
    /\ NoTraffic
    /\ NoHistory

\* the store after RequestPasswordReset("a@x.com") has returned as well
InitResetRequested ==
    /\ users = <<[id |-> 1, email |-> "a@x.com", emailVerified |-> FALSE,
                  passwordHash |-> HashPassword("Str0ng!pw"), status |-> "active",
                  lastLoginAt |-> NULL]>>
    /\ oauthProviders = {}
    /\ oauthSeq = 0
    /\ refreshTokens = <<>>
    /\ verificationTokens =
         <<[id |-> 1, userId |-> 1, token |-> 1, tokenType |-> "email_verification",
            expiresAt |-> VerifyTTL, usedAt |-> NULL],
           [id |-> 2, userId |-> 1, token |-> 2, tokenType |-> "password_reset",
            expiresAt |-> ResetTTL, usedAt |-> NULL]>>
    /\ writes = <<NoWrites, NoWrites>>
    /\ auditLog = <<>>
    /\ auditUp = FALSE
    /\ mailUp = FALSE
    /\ outbox = <<>>
    /\ now = 0
    /\ NoProcs
    /\ NoTraffic
    /\ NoHistory

\* the tables after Register("a@x.com", "Str0ng!pw") and then
\* HandleExternalAssertion(google, sub1, "b@x.com", pat1) have returned
TwoAccounts ==
    /\ users = <<[id |-> 1, email |-> "a@x.com", emailVerified |-> FALSE,
                  passwordHash |-> HashPassword("Str0ng!pw"), status |-> "active",
                  lastLoginAt |-> NULL],
                 [id |-> 2, email |-> "b@x.com", emailVerified |-> TRUE,
                  passwordHash |-> NoHash, status |-> "active",
                  lastLoginAt |-> 0]>>
    /\ oauthProviders =
         {[id |-> 1, userId |-> 2, provider |-> "google", providerUserId |-> "sub1",
           providerEmail |-> "b@x.com", accessToken |-> "pat1"]}
    /\ oauthSeq = 1
    /\ refreshTokens =
         <<[id |-> 1, userId |-> 2,
            tokenHash |-> HashToken(GenerateRefreshToken(2, "b@x.com", 0)),
            expiresAt |-> RefreshTTL, revokedAt |-> NULL]>>
    /\ verificationTokens =
         <<[id |-> 1, userId |-> 1, token |-> 1, tokenType |-> "email_verification",
            expiresAt |-> VerifyTTL, usedAt |-> NULL]>>
    /\ writes = <<NoWrites>>

\* ... with the audit table available
InitLinked ==
    /\ TwoAccounts
    /\ auditLog = <<[userId |-> 1, eventType |-> "REGISTER"],
                    [userId |-> 2, eventType |-> "REGISTER"],
                    [userId |-> 2, eventType |-> "OAUTH_LINK"],
                    [userId |-> 2, eventType |-> "LOGIN"]>>
    /\ auditUp = TRUE
    /\ mailUp = FALSE
    /\ outbox = <<>>
    /\ now = 0
    /\ NoProcs
    /\ NoTraffic
    /\ NoHistory

\* ... with the audit insert failing
InitLinkedQuiet ==
    /\ TwoAccounts
    /\ auditLog = <<>>
    /\ auditUp = FALSE
    /\ mailUp = FALSE
    /\ outbox = <<>>
    /\ now = 0
    /\ NoProcs
    /\ NoTraffic
    /\ NoHistory

\* the tables one second after Register(a), Login(a), RequestPasswordReset(a),
\* Register(b) and HandleExternalAssertion(google, sub1, "b@x.com", pat1)
\* have returned: two accounts, each with a session and one-time tokens
InitNeighbours ==
    /\ users = <<[id |-> 1, email |-> "a@x.com", emailVerified |-> FALSE,
                  passwordHash |-> HashPassword("Str0ng!pw"), status |-> "active",
                  lastLoginAt |-> 0],
                 [id |-> 2, email |-> "b@x.com", emailVerified |-> FALSE,
                  passwordHash |-> HashPassword("N3w!Passw"), status |-> "active",
                  lastLoginAt |-> 0]>>
    /\ oauthProviders =
         {[id |-> 1, userId |-> 2, provider |-> "google", providerUserId |-> "sub1",
           providerEmail |-> "b@x.com", accessToken |-> "pat1"]}
    /\ oauthSeq = 1
    /\ refreshTokens =
         <<[id |-> 1, userId |-> 1,
            tokenHash |-> HashToken(GenerateRefreshToken(1, "a@x.com", 0)),
            expiresAt |-> RefreshTTL, revokedAt |-> NULL],
           [id |-> 2, userId |-> 2,
            tokenHash |-> HashToken(GenerateRefreshToken(2, "b@x.com", 0)),
            expiresAt |-> RefreshTTL, revokedAt |-> NULL]>>
    /\ verificationTokens =
         <<[id |-> 1, userId |-> 1, token |-> 1, tokenType |-> "email_verification",
            expiresAt |-> VerifyTTL, usedAt |-> NULL],
           [id |-> 2, userId |-> 1, token |-> 2, tokenType |-> "password_reset",
            expiresAt |-> ResetTTL, usedAt |-> NULL],
           [id |-> 3, userId |-> 2, token |-> 3, tokenType |-> "email_verification",
            expiresAt |-> VerifyTTL, usedAt |-> NULL]>>
    /\ writes = <<NoWrites, NoWrites, NoWrites>>
    /\ auditLog = <<>>
    /\ auditUp = FALSE
    /\ mailUp = FALSE
    /\ outbox = <<>>
    /\ now = 1
    /\ NoProcs
    /\ NoTraffic
    /\ NoHistory

\* ------------------------------------------------------ specifications ----
\* sessions of one account: login, refresh rotation and logout, two requests
\* at a time
NextRotation ==
    /\ SteadyChannels
    /\ ServiceOnly
    /\ \/ Tick
       \/ \E p \in Procs :
            \/ Login(p) \/ LoginInsert(p)
            \/ RefreshFind(p) \/ RefreshRevoke(p) \/ RefreshInsert(p)
            \/ Logout(p)

Spec == InitRegistered /\ [][NextRotation]_vars

\* the same sessions, one request at a time, where a request can be interrupted
NextInterrupted ==
    /\ SteadyChannels
    /\ ServiceOnly
    /\ \/ Tick
       \/ Crash(1)
       \/ Login(1) \/ LoginInsert(1)
       \/ RefreshFind(1) \/ RefreshRevoke(1) \/ RefreshInsert(1)
       \/ Logout(1)

SpecInterrupted == InitRegistered /\ [][NextInterrupted]_vars

\* sessions and password reset of one account, one request at a time
NextReset ==
    /\ SteadyChannels
    /\ ServiceOnly
    /\ \/ Tick
       \/ Login(1) \/ LoginInsert(1)
       \/ RefreshFind(1) \/ RefreshRevoke(1) \/ RefreshInsert(1)
       \/ ResetFind(1) \/ ResetSetPassword(1) \/ ResetMarkUsed(1) \/ ResetRevokeAll(1)

SpecReset == InitResetRequested /\ [][NextReset]_vars

\* a password reset served while a login or a refresh of the same account
\* is in flight
NextResetRace ==
    /\ SteadyChannels
    /\ ServiceOnly
    /\ \/ Tick
       \/ Login(1) \/ LoginInsert(1)
       \/ RefreshFind(1) \/ RefreshRevoke(1) \/ RefreshInsert(1)
       \/ ResetFind(2) \/ ResetSetPassword(2) \/ ResetMarkUsed(2) \/ ResetRevokeAll(2)

SpecResetRace == InitResetRequested /\ [][NextResetRace]_vars

\* registrations and external assertions, two requests at a time, within
\* one second, on an empty store, on one with an account and on one with a
\* linked account as well; calls are admitted until one has issued tokens
InitAccounts == InitEmpty \/ InitRegistered \/ InitLinkedQuiet

NextAccounts ==
    /\ SteadyChannels
    /\ ServiceOnly
    /\ \E p \in Procs :
         \/ (refreshTokens = <<>> /\ (RegisterFind(p) \/ OAuthFind(p)))
         \/ RegisterInsert(p) \/ RegisterToken(p)
         \/ OAuthUpdate(p) \/ OAuthEmail(p) \/ OAuthCreate(p)
         \/ OAuthLink(p) \/ OAuthIssue(p)

SpecAccounts == InitAccounts /\ [][NextAccounts]_vars

\* no session has been revoked or opened and no one-time token consumed
\* since the initial state
NoCallHasWritten ==
    /\ \A i \in DOMAIN refreshTokens : i <= 2 /\ refreshTokens[i].revokedAt = NULL
    /\ \A i \in DOMAIN verificationTokens : verificationTokens[i].usedAt = NULL

\* the operations of two accounts, two requests at a time, within one
\* second; calls are admitted until one has revoked or opened a session or
\* consumed a one-time token
NextNeighbours ==
    /\ SteadyChannels
    /\ ServiceOnly
    /\ \E p \in Procs :
         \/ /\ NoCallHasWritten
            /\ Login(p) \/ RefreshFind(p) \/ Logout(p) \/ VerifyFind(p) \/ ResetFind(p)
         \/ LoginInsert(p)
         \/ RefreshRevoke(p) \/ RefreshInsert(p)
         \/ VerifySetVerified(p) \/ VerifyMarkUsed(p)
         \/ ResetSetPassword(p) \/ ResetMarkUsed(p) \/ ResetRevokeAll(p)

SpecNeighbours == InitNeighbours /\ [][NextNeighbours]_vars

\* bearer tokens presented to the middleware and access tokens presented as
\* refresh tokens while sessions are opened and account status changes
NextGate ==
    /\ SteadyChannels
    /\ ServiceOnly
    /\ \/ Tick
       \/ StatusChange
       \/ Authenticate(1)
       \/ RefreshFindAccess(1)
       \/ Login(1) \/ LoginInsert(1)

SpecGate == InitLinkedQuiet /\ [][NextGate]_vars

\* every session on record has been revoked
NoLiveSession == \A i \in DOMAIN refreshTokens : refreshTokens[i].revokedAt # NULL

\* bearer tokens presented to the middleware while the sessions of one
\* account are opened, closed by Logout and revoked by ResetPassword, and
\* the refresh tokens of its revoked sessions are presented again; the
\* account signs in again only after its session has been revoked
NextRevocation ==
    /\ SteadyChannels
    /\ ServiceOnly
    /\ \/ Tick
       \/ StatusChange
       \/ AuthenticateSession(1)
       \/ (NoLiveSession /\ Login(1)) \/ LoginInsert(1)
       \/ RefreshFindRevoked(1)
       \/ Logout(1)
       \/ ResetFind(1) \/ ResetSetPassword(1) \/ ResetMarkUsed(1) \/ ResetRevokeAll(1)

SpecRevocation == InitResetRequested /\ [][NextRevocation]_vars

\* password resets of one account that holds several reset tokens
NextSecondReset ==
    /\ SteadyChannels
    /\ ServiceOnly
    /\ \/ Tick
       \/ RequestResetFind(1) \/ RequestResetInsert(1)
       \/ ResetFind(1) \/ ResetSetPassword(1) \/ ResetMarkUsed(1) \/ ResetRevokeAll(1)

SpecSecondReset == InitResetRequested /\ [][NextSecondReset]_vars

\* sessions opened through an external identity, rotated while the identity
\* is unlinked; an external assertion is served once no identity is linked,
\* so it never finds its identity on record
NextUnlinkSession ==
    /\ SteadyChannels
    /\ ServiceOnly
    /\ \/ Tick
       \/ (oauthProviders = {} /\ OAuthFind(1))
       \/ OAuthEmail(1) \/ OAuthCreate(1)
       \/ OAuthLink(1) \/ OAuthIssue(1)
       \/ UnlinkFind(1) \/ UnlinkDelete(1)
       \/ RefreshFind(1) \/ RefreshRevoke(1) \/ RefreshInsert(1)

SpecUnlinkSession == InitLinkedQuiet /\ [][NextUnlinkSession]_vars

\* requests of two clients counted by the Redis-backed store while its
\* windows run out
NextLimiter ==
    /\ SteadyChannels
    /\ UNCHANGED browser
    /\ \/ Tick /\ UNCHANGED edge
       \/ \E key \in Keys : Increment(key)

SpecLimiter == InitEmpty /\ [][NextLimiter]_vars

\* the store and the browser after Register("a@x.com", "Str0ng!pw") and
\* Login("a@x.com", "Str0ng!pw") have returned to the web client
InitSignedIn ==
    /\ users = <<[id |-> 1, email |-> "a@x.com", emailVerified |-> FALSE,
                  passwordHash |-> HashPassword("Str0ng!pw"), status |-> "active",
                  lastLoginAt |-> 0]>>
    /\ oauthProviders = {}
    /\ oauthSeq = 0
    /\ refreshTokens =
         <<[id |-> 1, userId |-> 1,
            tokenHash |-> HashToken(GenerateRefreshToken(1, "a@x.com", 0)),
            expiresAt |-> RefreshTTL, revokedAt |-> NULL]>>
    /\ verificationTokens =
         <<[id |-> 1, userId |-> 1, token |-> 1, tokenType |-> "email_verification",
            expiresAt |-> VerifyTTL, usedAt |-> NULL]>>
    /\ writes = <<NoWrites>>
    /\ auditLog = <<>>
    /\ auditUp = FALSE
    /\ mailUp = FALSE
    /\ outbox = <<>>
    /\ now = 0
    /\ NoProcs
    /\ NoHistory
    /\ limiterKeys = [k \in Keys |-> NoKey]
    /\ hit = NoHit
    /\ localStorage = GenerateTokenPair(1, "a@x.com", 0)
    /\ req = [r \in Reqs |-> NoReq]

\* two API requests of the signed-in web client and the service that
\* answers them, while time passes
NextClient ==
    /\ SteadyChannels
    /\ \/ Tick /\ UNCHANGED <<edge, browser>>
       \/ \E r \in Reqs :
            \/ Send(r)
            \/ ServeMe(r) \/ ServeLogin(r)
            \/ InterceptError(r)
            \/ ServeRefresh(r)
            \/ StoreAndReplay(r) \/ ClearTokens(r)
       \/ \E p \in Procs : ServeRefreshRevoke(p) \/ ServeRefreshInsert(p)

SpecClient == InitSignedIn /\ [][NextClient]_vars

\* every password_reset token on record has been used
NoOpenReset ==
    \A i \in DOMAIN verificationTokens :
      verificationTokens[i].tokenType = "password_reset"
        => verificationTokens[i].usedAt # NULL

\* one-time tokens of one account, one request at a time; a further reset
\* token is requested once the earlier ones have been used
NextOneTime ==
    /\ SteadyChannels
    /\ ServiceOnly
    /\ \/ Tick
       \/ VerifyFind(1) \/ VerifySetVerified(1) \/ VerifyMarkUsed(1)
       \/ (NoOpenReset /\ RequestResetFind(1)) \/ RequestResetInsert(1)
       \/ ResetFind(1) \/ ResetSetPassword(1) \/ ResetMarkUsed(1) \/ ResetRevokeAll(1)

SpecOneTime == InitRegistered /\ [][NextOneTime]_vars

\* the issued one-time tokens of one account consumed by two requests at a time
NextOneTimeRace ==
    /\ SteadyChannels
    /\ ServiceOnly
    /\ \/ Tick
       \/ \E p \in Procs :
            \/ VerifyFind(p) \/ VerifySetVerified(p) \/ VerifyMarkUsed(p)
            \/ ResetFind(p) \/ ResetSetPassword(p) \/ ResetMarkUsed(p) \/ ResetRevokeAll(p)

SpecOneTimeRace == InitResetRequested /\ [][NextOneTimeRace]_vars

\* accounts and linked identities, one request at a time: external
\* assertions and unlink, next to an account registered with a password
NextIdentity ==
    /\ SteadyChannels
    /\ ServiceOnly
    /\ \/ Tick
       \/ OAuthFind(1) \/ OAuthUpdate(1) \/ OAuthEmail(1) \/ OAuthCreate(1)
       \/ OAuthLink(1) \/ OAuthIssue(1)
       \/ UnlinkFind(1) \/ UnlinkDelete(1)

SpecIdentity == InitRegistered /\ [][NextIdentity]_vars

\* passwords presented to validatePasswordStrength, to register and to
\* resetPassword
NextPolicy ==
    /\ SteadyChannels
    /\ ServiceOnly
    /\ \/ Tick
       \/ ValidatePresented(1)
       \/ RegisterFind(1)
       \/ ResetFind(1)

SpecPolicy == InitResetRequested /\ [][NextPolicy]_vars

\* external assertions for accounts whose status changes, one request at a
\* time, within one second
NextSuspended ==
    /\ SteadyChannels
    /\ ServiceOnly
    /\ \/ StatusChange
       \/ OAuthFind(1) \/ OAuthUpdate(1) \/ OAuthEmail(1) \/ OAuthCreate(1)
       \/ OAuthLink(1) \/ OAuthIssue(1)

SpecSuspended == InitRegistered /\ [][NextSuspended]_vars

\* tokens of two accounts presented to verifyToken as time passes
NextCodec ==
    /\ SteadyChannels
    /\ ServiceOnly
    /\ \/ Tick
       \/ VerifyPresented(1)

SpecCodec == InitLinkedQuiet /\ [][NextCodec]_vars

\* accounts created by external assertions only, with or without an email
\* address, one request at a time
NextBlankEmail ==
    /\ SteadyChannels
    /\ ServiceOnly
    /\ \/ Tick
       \/ OAuthFind(1) \/ OAuthFindBlank(1)
       \/ OAuthUpdate(1) \/ OAuthEmail(1) \/ OAuthCreate(1)
       \/ OAuthLink(1) \/ OAuthIssue(1)
       \/ UnlinkFind(1) \/ UnlinkDelete(1)

SpecBlankEmail == InitEmpty /\ [][NextBlankEmail]_vars

\* the audit table holds at most MaxAudit rows
AuditRoom == Len(auditLog) < MaxAudit

\* the identity operations with the audit table available
NextIdentityAudited ==
    /\ SteadyChannels
    /\ ServiceOnly
    /\ AuditRoom
    /\ \/ Tick
       \/ OAuthFind(1) \/ OAuthUpdate(1) \/ OAuthEmail(1) \/ OAuthCreate(1)
       \/ OAuthLink(1) \/ OAuthIssue(1)
       \/ UnlinkFind(1) \/ UnlinkDelete(1)

SpecIdentityAudited == InitRegisteredAudited /\ [][NextIdentityAudited]_vars


\* logins and refreshes of two accounts (one with a password, one created by
\* an external assertion) whose status changes, one request at a time
NextLogin ==
    /\ SteadyChannels
    /\ ServiceOnly
    /\ AuditRoom
    /\ \/ Tick
       \/ StatusChange
       \/ Login(1) \/ LoginInsert(1)
       \/ RefreshFind(1) \/ RefreshRevoke(1) \/ RefreshInsert(1)

SpecLogin == InitLinked /\ [][NextLogin]_vars

\* registrations, two requests at a time
NextRegister ==
    /\ SteadyChannels
    /\ ServiceOnly
    /\ \/ Tick
       \/ \E p \in Procs :
            \/ RegisterFind(p) \/ RegisterInsert(p) \/ RegisterToken(p)

SpecRegister == InitFresh /\ [][NextRegister]_vars

\* registrations, one request at a time, and the process may die in between
NextRegisterInterrupted ==
    /\ SteadyChannels
    /\ ServiceOnly
    /\ \/ Tick
       \/ Crash(1)
       \/ RegisterFind(1) \/ RegisterInsert(1) \/ RegisterToken(1)

SpecRegisterInterrupted == InitFresh /\ [][NextRegisterInterrupted]_vars

\* the session of one of two accounts, rotated and logged out by either
\* account, one request at a time
NextLogout ==
    /\ SteadyChannels
    /\ ServiceOnly
    /\ \/ Tick
       \/ RefreshFind(1) \/ RefreshRevoke(1) \/ RefreshInsert(1)
       \/ Logout(1)

SpecLogout == InitLinkedQuiet /\ [][NextLogout]_vars

\* password reset requests for a known and an unknown email, two at a time,
\* and resets that consume the issued tokens
NextForgot ==
    /\ SteadyChannels
    /\ ServiceOnly
    /\ AuditRoom
    /\ \/ Tick
       \/ \E p \in Procs : RequestResetFind(p) \/ RequestResetInsert(p)
       \/ ResetFind(1) \/ ResetSetPassword(1) \/ ResetMarkUsed(1) \/ ResetRevokeAll(1)

SpecForgot == InitRegisteredAudited /\ [][NextForgot]_vars

\* stores prepared by earlier calls: nothing stored yet; one account with its
\* one-time tokens; two accounts, one of them created by an external assertion
InitBestEffort == InitEmpty \/ InitResetRequested \/ InitLinkedQuiet

\* the first call served on such a store, whatever the operation
BestEffortSteps ==
    /\ ret = NoResult
    /\ ServiceOnly
    /\ \/ Tick
       \/ RegisterFind(1) \/ RegisterInsert(1) \/ RegisterToken(1)
       \/ VerifyFind(1) \/ VerifySetVerified(1) \/ VerifyMarkUsed(1)
       \/ RequestResetFind(1) \/ RequestResetInsert(1)
       \/ ResetFind(1) \/ ResetSetPassword(1) \/ ResetMarkUsed(1) \/ ResetRevokeAll(1)
       \/ Login(1) \/ LoginInsert(1)
       \/ RefreshFind(1) \/ RefreshRevoke(1) \/ RefreshInsert(1)
       \/ Logout(1)
       \/ OAuthFind(1) \/ OAuthUpdate(1) \/ OAuthEmail(1) \/ OAuthCreate(1)
       \/ OAuthLink(1) \/ OAuthIssue(1)
       \/ UnlinkFind(1) \/ UnlinkDelete(1)

\* the audit insert and the mail transport fail or succeed anew at every step
NextBestEffort ==
    /\ auditUp' \in BOOLEAN
    /\ mailUp' \in BOOLEAN
    /\ BestEffortSteps

SpecBestEffort == InitBestEffort /\ [][NextBestEffort]_vars

\* ============================================================ claims ====
\* a step by which request p starts a refresh that passes the token check
PassesRefreshCheck(p) == pc[p] = "idle" /\ pc'[p] = "rf_revoke"

\* a step that is a whole call: it starts in a free slot and answers at once
AnswersAtOnce == pc' = pc /\ ret' # NoResult

\* raw refresh tokens for which a RefreshAccessToken call has returned a pair
RefreshedOK == {refreshTokens[pr[1]].tokenHash.sha256 : pr \in rotated}

LiveAt(r, t) == r.revokedAt = NULL /\ r.expiresAt > t

\* C1: refresh tokens are single-use.  Once RefreshAccessToken(t) has returned
\* a pair, a later call presenting the same raw t never passes the token check:
\* it is answered with UnauthorizedError and stores no row.
C1_SingleUse ==
    [][/\ \A p \in Procs : PassesRefreshCheck(p) => loc'[p].tok \notin RefreshedOK
       /\ (AnswersAtOnce /\ ret'.op = "refresh" /\ ret'.tok \in RefreshedOK)
            => /\ ret'.status = "UnauthorizedError"
               /\ ret'.refreshToken = NoToken
               /\ refreshTokens' = refreshTokens]_vars

\* a refresh with an already rotated token has just been refused
C1_Witness ==
    /\ ret.op = "refresh"
    /\ ret.status = "UnauthorizedError"
    /\ ret.tok \in RefreshedOK

\* C2: of the RefreshAccessToken calls presenting one raw token, at most one
\* returns a pair, also when they interleave: a refresh_tokens row never has
\* two successor rows.
C2_AtMostOneSuccessor ==
    \A a \in rotated : \A b \in rotated : a[1] = b[1] => a = b

\* C3: rotation is all-or-nothing.  When no rotation of a row is in flight any
\* more (it returned, threw or was interrupted), a row revoked by rotation has
\* a replacement row stored.
C3_AllOrNothing ==
    \A r \in rotRevoked :
        \/ \E pr \in rotated : pr[1] = r
        \/ \E p \in Procs : pc[p] = "rf_insert" /\ loc[p].row = r

\* a step by which request p executes the insert of an issuance
IssuanceStep(p) ==
    /\ pc[p] \in {"lg_insert", "rf_insert", "oa_issue"}
    /\ pc'[p] # pc[p]
    /\ ret'.status # "crashed"

StoredHashes == {refreshTokens[i].tokenHash : i \in DOMAIN refreshTokens}

\* C4: every issuance (Login, RefreshAccessToken, HandleExternalAssertion)
\* stores exactly one new refresh_tokens row, whose hash differs from every
\* stored hash, however little time has passed since the previous issuance;
\* a refresh never hands back the token it was given.
C4_FreshSecret ==
    [][\A p \in Procs : IssuanceStep(p) =>
          /\ Len(refreshTokens') = Len(refreshTokens) + 1
          /\ refreshTokens'[Len(refreshTokens')].tokenHash \notin StoredHashes
          /\ refreshTokens'[Len(refreshTokens')].userId = loc[p].uid
          /\ pc[p] = "rf_insert" => loc[p].newTok # loc[p].tok]_vars

\* C5: a refresh passes the token check only on a row that matches the hash
\* of the presented token, is not revoked and expires strictly later than the
\* current time; and a row that is revoked or expired stays so, whatever
\* step follows (revoked_at is never reset, expires_at never moved).
C5_OnlyLiveRowAuthorizes ==
    [][/\ \A p \in Procs : PassesRefreshCheck(p) =>
            /\ loc'[p].row \in DOMAIN refreshTokens
            /\ refreshTokens[loc'[p].row].tokenHash = HashToken(loc'[p].tok)
            /\ LiveAt(refreshTokens[loc'[p].row], now)
       /\ \A i \in DOMAIN refreshTokens :
            ~LiveAt(refreshTokens[i], now) => ~LiveAt(refreshTokens'[i], now')]_vars

\* a refresh has just been refused for a row that was never revoked but expired
C5_Witness ==
    /\ ret.op = "refresh"
    /\ ret.status = "UnauthorizedError"
    /\ \E i \in DOMAIN refreshTokens :
         /\ refreshTokens[i].tokenHash = HashToken(ret.tok)
         /\ refreshTokens[i].revokedAt = NULL
         /\ refreshTokens[i].expiresAt <= now

\* the refresh_tokens row a raw token hashes to (0: none)
RowOf(tok) == RefreshRowByHash(HashToken(tok))

\* C6: full session invalidation.  After ResetPassword has succeeded for an
\* account, every refresh token the account held at that moment is revoked: a
\* RefreshAccessToken presenting one never passes the token check and is
\* answered with UnauthorizedError, without a token pair.
C6_ResetInvalidatesSessions ==
    [][/\ \A i \in preReset : refreshTokens[i].revokedAt # NULL
       /\ \A p \in Procs : PassesRefreshCheck(p) => loc'[p].row \notin preReset
       /\ (AnswersAtOnce /\ ret'.op = "refresh" /\ RowOf(ret'.tok) \in preReset)
            => /\ ret'.status = "UnauthorizedError"
               /\ ret'.refreshToken = NoToken
               /\ refreshTokens' = refreshTokens]_vars

\* a refresh has just been refused for a token that only the reset revoked:
\* it was never rotated and has not expired
C6_Witness ==
    /\ ret.op = "refresh"
    /\ ret.status = "UnauthorizedError"
    /\ RowOf(ret.tok) \in preReset \ rotRevoked
    /\ refreshTokens[RowOf(ret.tok)].expiresAt > now

\* a step by which request p starts a VerifyEmail or ResetPassword that
\* passes the token check
PassesOneTimeCheck(p) == pc[p] = "idle" /\ pc'[p] \in {"ve_set", "rp_pw"}

ExpiredOneTime(ott) ==
    \E i \in DOMAIN verificationTokens :
        verificationTokens[i].token = ott /\ verificationTokens[i].expiresAt <= now

ConsumingOps == {"verifyEmail", "resetPassword"}

\* C7: one-time tokens are single-use in sequence.  With one request served
\* at a time, a VerifyEmail / ResetPassword passes the token check only on an
\* unused, unexpired row; a call presenting a token that was already consumed
\* with success, or whose expiry is not later than now, is answered with
\* ValidationError and changes neither the account nor any token row; and no
\* token is consumed with success twice.
C7_OneTimeSingleUse ==
    [][/\ \A p \in Procs : PassesOneTimeCheck(p) =>
            /\ loc'[p].ott \notin consumedOK
            /\ verificationTokens[loc'[p].row].token = loc'[p].ott
            /\ verificationTokens[loc'[p].row].usedAt = NULL
            /\ verificationTokens[loc'[p].row].expiresAt > now
       /\ (/\ AnswersAtOnce
           /\ ret'.op \in ConsumingOps
           /\ (ret'.ott \in consumedOK \/ ExpiredOneTime(ret'.ott)))
            => /\ ret'.status = "ValidationError"
               /\ users' = users
               /\ verificationTokens' = verificationTokens
               /\ refreshTokens' = refreshTokens
       /\ (ret'.op \in ConsumingOps /\ ret'.status = "ok")
            => ret'.ott \notin consumedOK]_vars

\* a ResetPassword with a strong password has just been refused because its
\* token had already been consumed
C7_Witness ==
    /\ ret.op = "resetPassword"
    /\ ret.status = "ValidationError"
    /\ ret.message = "Invalid or expired reset token"
    /\ ret.ott \in consumedOK

\* C8: consumption never double-applies under interleaving.  On behalf of one
\* one-time token the password hash is written at most once and usedAt is
\* written at most once, also when two calls presenting it interleave.
C8_NoDoubleApply ==
    \A i \in DOMAIN writes : writes[i].pw <= 1 /\ writes[i].used <= 1

\* the (provider, subject) pair is linked, and to which account
IsLinked(provider, providerId) ==
    \E r \in oauthProviders : r.provider = provider /\ r.providerUserId = providerId

OwnerOf(provider, providerId) ==
    (CHOOSE r \in oauthProviders :
        r.provider = provider /\ r.providerUserId = providerId).userId

\* a LinkedIdentity without its provider token fields
Identity(r) ==
    [id |-> r.id, userId |-> r.userId, provider |-> r.provider,
     providerUserId |-> r.providerUserId, providerEmail |-> r.providerEmail]

\* C9: identity reconciliation is idempotent.  An assertion whose (provider,
\* subject) pair is already linked resolves to the owning account: the call
\* creates no users row and no oauth_providers row, changes nothing of the
\* existing link but its provider token, and returns the owner with
\* isNewUser = false.
C9_Idempotent ==
    [][\A p \in Procs :
         /\ (/\ pc[p] = "idle"
             /\ pc'[p] \in {"oa_update", "oa_email"}
             /\ IsLinked(loc'[p].provider, loc'[p].providerId))
              => /\ pc'[p] = "oa_update"
                 /\ loc'[p].linked
                 /\ loc'[p].uid = OwnerOf(loc'[p].provider, loc'[p].providerId)
                 /\ ~loc'[p].isNewUser
         /\ (loc[p].linked /\ pc'[p] # pc[p])
              => /\ Len(users') = Len(users)
                 /\ oauthSeq' = oauthSeq
                 /\ {Identity(r) : r \in oauthProviders'} = {Identity(r) : r \in oauthProviders}
                 /\ pc[p] = "oa_update" =>
                      \A r \in oauthProviders' :
                          r.id = loc[p].existing => r.accessToken = loc[p].ptoken
                 /\ (ret'.op = "oauth" /\ ret'.status = "ok")
                      => ret'.uid = loc[p].uid /\ ~ret'.isNewUser]_vars

\* the second assertion for a pair has just returned: the account was created
\* by an assertion, only one link was ever inserted, and this call did not
\* create the account
C9_Witness ==
    /\ ret.op = "oauth"
    /\ ret.status = "ok"
    /\ ~ret.isNewUser
    /\ users[ret.uid].passwordHash = NoHash
    /\ oauthSeq = 1
    /\ \E r \in oauthProviders : r.userId = ret.uid

\* C10: cross-provider convergence.  When the pair of an assertion is not
\* linked and an account with the asserted email exists, the call takes that
\* account, inserts one oauth_providers row bound to it, creates no users
\* row, and returns the account with isNewUser = false.
C10_Convergence ==
    [][\A p \in Procs :
         /\ (/\ pc[p] = "oa_email"
             /\ pc'[p] # pc[p]
             /\ \E i \in DOMAIN users : users[i].email = loc[p].email)
              => /\ pc'[p] = "oa_link"
                 /\ users[loc'[p].uid].email = loc[p].email
                 /\ ~loc'[p].isNewUser
                 /\ users' = users
         /\ (/\ pc[p] = "oa_link"
             /\ pc'[p] # pc[p]
             /\ ~loc[p].isNewUser
             /\ ~IsLinked(loc[p].provider, loc[p].providerId))
              => /\ users' = users
                 /\ Cardinality(oauthProviders') = Cardinality(oauthProviders) + 1
                 /\ \E r \in oauthProviders' \ oauthProviders :
                      /\ r.userId = loc[p].uid
                      /\ r.provider = loc[p].provider
                      /\ r.providerUserId = loc[p].providerId
         /\ (/\ pc[p] = "oa_issue"
             /\ ~loc[p].linked
             /\ ~loc[p].isNewUser
             /\ ret'.op = "oauth"
             /\ ret'.status = "ok")
              => /\ ret'.uid = loc[p].uid
                 /\ ~ret'.isNewUser
                 /\ Len(users') = Len(users)]_vars

\* the first assertion for the account registered with a password has just
\* returned: the only link ever inserted is bound to that account, and the
\* only refresh token ever stored is the one of this call
C10_Witness ==
    /\ ret.op = "oauth"
    /\ ret.status = "ok"
    /\ ~ret.isNewUser
    /\ users[ret.uid].passwordHash # NoHash
    /\ oauthSeq = 1
    /\ Len(refreshTokens) = 1
    /\ \E r \in oauthProviders : r.userId = ret.uid

\* C11: an assertion with an empty email never matches an account by email.
\* A call with email '' whose (provider, subject) pair is not linked goes on
\* to create an account, the insert stores a users row, and the call returns
\* isNewUser = true, also when an account with email '' exists already.
C11_BlankEmailNeverMatches ==
    [][\A p \in Procs :
         /\ (pc[p] = "oa_email" /\ pc'[p] # pc[p] /\ loc[p].email = "")
              => pc'[p] = "oa_create"
         /\ (pc[p] = "oa_create" /\ pc'[p] # pc[p] /\ loc[p].email = "")
              => /\ Len(users') = Len(users) + 1
                 /\ pc'[p] = "oa_link"
                 /\ loc'[p].isNewUser
         /\ (/\ pc[p] = "oa_issue"
             /\ ~loc[p].linked
             /\ loc[p].email = ""
             /\ ret'.op = "oauth"
             /\ ret'.status = "ok")
              => ret'.isNewUser]_vars

\* accounts a reconciliation has created and not linked yet
BeingLinked == {loc[p].uid : p \in {q \in Procs : pc[q] = "oa_link"}}

\* C12: every account has a password hash or at least one linked identity
\* (an account a running HandleExternalAssertion has just inserted gets its
\* identity with the next statement of that call).
C12_AccountHasCredential ==
    \A i \in DOMAIN users :
        \/ users[i].passwordHash # NoHash
        \/ \E r \in oauthProviders : r.userId = i
        \/ i \in BeingLinked

\* a step that is a whole Login call, answered at once
LoginAnswered == AnswersAtOnce /\ ret'.op = "login"

\* the three causes of a failed login: unknown email, account without
\* password hash, wrong password
FailureCause(email, pw) ==
    LET u == UserByEmail(email)
    IN \/ u = 0
       \/ users[u].passwordHash = NoHash
       \/ users[u].passwordHash # HashPassword(pw)

\* the response without the echo of the request
Response(r) == [r EXCEPT !.email = "", !.pw = "", !.provider = "", !.providerId = "",
                          !.decoded = NoToken, !.errors = <<>>]

C14_InactiveRefused ==
    [][/\ (LoginAnswered /\ ~FailureCause(ret'.email, ret'.pw))
            => /\ users[UserByEmail(ret'.email)].status # "active"
               /\ ret'.status = "UnauthorizedError"
               /\ ret'.refreshToken = NoToken
               /\ refreshTokens' = refreshTokens
               /\ users' = users
       /\ \A p \in Procs : (pc[p] = "idle" /\ pc'[p] = "lg_insert")
            => users[loc'[p].uid].status = "active"
       /\ \A p \in Procs : PassesRefreshCheck(p)
            => users[refreshTokens[loc'[p].row].userId].status = "active"
       /\ (/\ AnswersAtOnce
           /\ ret'.op = "refresh"
           /\ RowOf(ret'.tok) # 0
           /\ users[refreshTokens[RowOf(ret'.tok)].userId].status # "active")
            => /\ ret'.status = "UnauthorizedError"
               /\ ret'.refreshToken = NoToken
               /\ refreshTokens' = refreshTokens
               /\ users' = users]_vars

\* a refresh with a live token of an account that is not active has just
\* been refused, and the row is still not revoked
C14_Witness ==
    /\ ret.op = "refresh"
    /\ ret.status = "UnauthorizedError"
    /\ RowOf(ret.tok) # 0
    /\ LiveAt(refreshTokens[RowOf(ret.tok)], now)
    /\ users[refreshTokens[RowOf(ret.tok)].userId].status # "active"

\* C15: Register with an email that already belongs to an account fails with
\* ConflictError and changes nothing (no users row, no verification_tokens
\* row, no audit event), both when the account exists as the call starts and
\* when a concurrent Register has created it before the call's own insert.
C15_RegisterConflict ==
    [][/\ (/\ AnswersAtOnce
           /\ ret'.op = "register"
           /\ ValidatePasswordStrength(ret'.pw).valid
           /\ UserByEmail(ret'.email) # 0)
            => /\ ret'.status = "ConflictError"
               /\ UNCHANGED <<store, auditLog>>
       /\ \A p \in Procs :
            (pc[p] = "rg_insert" /\ pc'[p] # pc[p] /\ UserByEmail(loc[p].email) # 0)
              => /\ ret'.op = "register"
                 /\ ret'.status = "ConflictError"
                 /\ UNCHANGED <<store, auditLog>>]_vars

\* C16: a successful Register creates exactly one users row (email not
\* verified, status active, the hash of the given password), exactly one
\* unused email_verification token for it expiring VerifyTTL (24 hours) after
\* its insert, and one REGISTER audit event (when the audit insert works); it
\* returns no tokens and no step of it touches refresh_tokens.
C16_RegisterFrame ==
    [][\A p \in Procs :
         /\ (pc[p] = "rg_insert" /\ pc'[p] = "rg_token")
              => /\ users' = Append(users,
                                    [id |-> Len(users) + 1, email |-> loc[p].email,
                                     emailVerified |-> FALSE,
                                     passwordHash |-> HashPassword(loc[p].pw),
                                     status |-> "active", lastLoginAt |-> NULL])
                 /\ loc'[p].uid = Len(users) + 1
                 /\ UNCHANGED <<oauthProviders, refreshTokens, verificationTokens, auditLog>>
         /\ (pc[p] = "rg_token" /\ pc'[p] # pc[p])
              => /\ Len(verificationTokens') = Len(verificationTokens) + 1
                 /\ SubSeq(verificationTokens', 1, Len(verificationTokens)) = verificationTokens
                 /\ LET t == verificationTokens'[Len(verificationTokens')] IN
                      /\ t.userId = loc[p].uid
                      /\ t.tokenType = "email_verification"
                      /\ t.usedAt = NULL
                      /\ t.expiresAt = now + VerifyTTL
                      /\ \A i \in DOMAIN verificationTokens :
                           verificationTokens[i].token # t.token
                 /\ auditLog' = IF auditUp
                                THEN Append(auditLog, [userId |-> loc[p].uid,
                                                       eventType |-> "REGISTER"])
                                ELSE auditLog
                 /\ ret'.op = "register"
                 /\ ret'.status = "ok"
                 /\ ret'.uid = loc[p].uid
                 /\ ret'.refreshToken = NoToken
                 /\ UNCHANGED <<users, oauthProviders, refreshTokens>>
         /\ (pc[p] \in {"idle", "rg_insert", "rg_token"} /\ pc'[p] \in {"rg_insert", "rg_token"})
              => refreshTokens' = refreshTokens]_vars

\* a Register has just returned with the audit table available: its account,
\* its verification token and its audit event are stored, and no session
C16_Witness ==
    /\ ret.op = "register"
    /\ ret.status = "ok"
    /\ auditUp
    /\ users[ret.uid].email = ret.email
    /\ \E i \in DOMAIN verificationTokens : verificationTokens[i].userId = ret.uid
    /\ auditLog[Len(auditLog)] = [userId |-> ret.uid, eventType |-> "REGISTER"]
    /\ refreshTokens = <<>>

\* C17: Register is atomic with respect to its two writes.  Once no Register
\* is in flight for it, an account created by Register has the
\* email_verification token issued for it.
C17_RegisterAtomic ==
    \A i \in DOMAIN users :
        users[i].passwordHash # NoHash =>
            \/ \E j \in DOMAIN verificationTokens :
                  /\ verificationTokens[j].userId = i
                  /\ verificationTokens[j].tokenType = "email_verification"
            \/ \E p \in Procs : pc[p] = "rg_token" /\ loc[p].uid = i

\* C18: Logout(rawRefreshToken, accountId) revokes exactly the rows whose
\* hash is that of the raw token and whose owner is accountId, and leaves
\* every other row as it is: a row of another account stays live, and a live
\* row of an active account is never refused a refresh.  Whether or not a
\* row matched, and whether or not it was revoked already, the call returns
\* the same acknowledgement, and no revoked row becomes unrevoked.
C18_LogoutScoped ==
    [][/\ (AnswersAtOnce /\ ret'.op = "logout")
            => /\ Response(ret') =
                    [Outcome("logout", "ok", "Logged out successfully")
                       EXCEPT !.uid = ret'.uid, !.tok = ret'.tok]
               /\ Len(refreshTokens') = Len(refreshTokens)
               /\ users' = users
               /\ \A i \in DOMAIN refreshTokens :
                    IF /\ refreshTokens[i].tokenHash = HashToken(ret'.tok)
                       /\ refreshTokens[i].userId = ret'.uid
                    THEN /\ refreshTokens'[i].revokedAt # NULL
                         /\ [refreshTokens'[i] EXCEPT !.revokedAt = NULL]
                              = [refreshTokens[i] EXCEPT !.revokedAt = NULL]
                    ELSE refreshTokens'[i] = refreshTokens[i]
       /\ (AnswersAtOnce /\ ret'.op = "refresh" /\ RowOf(ret'.tok) # 0)
            => \/ ~LiveAt(refreshTokens[RowOf(ret'.tok)], now)
               \/ users[refreshTokens[RowOf(ret'.tok)].userId].status # "active"]_vars

\* a Logout naming an account that does not own the presented token has just
\* been acknowledged, and the token's row is still live
C18_Witness ==
    /\ ret.op = "logout"
    /\ ret.status = "ok"
    /\ RowOf(ret.tok) # 0
    /\ refreshTokens[RowOf(ret.tok)].userId # ret.uid
    /\ LiveAt(refreshTokens[RowOf(ret.tok)], now)

\* C19: RequestPasswordReset returns the identical acknowledgement whether or
\* not the email exists.  For an unknown email it writes nothing (no token,
\* no audit event); for a known one it stores exactly one unused
\* password_reset token of the account, expiring ResetTTL (1 hour) after its
\* insert, and one PASSWORD_RESET_REQUEST audit event, and nothing else.
C19_ForgotAnonymous ==
    [][/\ ret'.op = ForgotOp
            => Response(ret') = Outcome(ForgotOp, "ok",
                   "If the email exists, a password reset link has been sent")
       /\ (AnswersAtOnce /\ ret'.op = ForgotOp)
            => /\ UserByEmail(ret'.email) = 0
               /\ UNCHANGED <<store, auditLog>>
       /\ \A p \in Procs :
            /\ (pc[p] = "idle" /\ pc'[p] = "rq_insert")
                 => /\ UserByEmail(loc'[p].email) # 0
                    /\ loc'[p].uid = UserByEmail(loc'[p].email)
                    /\ UNCHANGED <<store, auditLog>>
            /\ (pc[p] = "rq_insert" /\ pc'[p] # pc[p])
                 => /\ ret'.op = ForgotOp
                    /\ ret'.email = loc[p].email
                    /\ Len(verificationTokens') = Len(verificationTokens) + 1
                    /\ SubSeq(verificationTokens', 1, Len(verificationTokens))
                         = verificationTokens
                    /\ LET t == verificationTokens'[Len(verificationTokens')] IN
                         /\ t.userId = loc[p].uid
                         /\ t.tokenType = "password_reset"
                         /\ t.usedAt = NULL
                         /\ t.expiresAt = now + ResetTTL
                         /\ \A i \in DOMAIN verificationTokens :
                              verificationTokens[i].token # t.token
                    /\ auditLog' = Append(auditLog, [userId |-> loc[p].uid,
                                                     eventType |-> "PASSWORD_RESET_REQUEST"])
                    /\ UNCHANGED <<users, oauthProviders, refreshTokens>>]_vars

\* a request for an unknown email has just been acknowledged, after a
\* request for the known one had stored its token
C19_Witness ==
    /\ ret.op = ForgotOp
    /\ ret.status = "ok"
    /\ UserByEmail(ret.email) = 0
    /\ \E i \in DOMAIN verificationTokens :
         verificationTokens[i].tokenType = "password_reset"

\* the raw one-time token names an unused, unexpired password_reset row
ValidResetToken(ott) ==
    \E i \in DOMAIN verificationTokens :
        /\ verificationTokens[i].token = ott
        /\ verificationTokens[i].tokenType = "password_reset"
        /\ verificationTokens[i].usedAt = NULL
        /\ verificationTokens[i].expiresAt > now

\* C20: ResetPassword validates the password before it touches the token.  A
\* call with a policy-violating password is answered with ValidationError
\* whatever the raw token, and changes nothing (token unused, password hash
\* unchanged, no refresh_tokens row revoked); a call with a strong password
\* is refused only when its token is not valid, so a valid token survives a
\* weak attempt and can still be consumed.
C20_PolicyFirst ==
    [][/\ (AnswersAtOnce /\ ret'.op = "resetPassword" /\ ret'.pw \in WeakPasswords)
            => /\ ret'.status = "ValidationError"
               /\ UNCHANGED store
       /\ \A p \in Procs : (pc[p] = "idle" /\ pc'[p] = "rp_pw")
            => loc'[p].pw \notin WeakPasswords
       /\ (AnswersAtOnce /\ ret'.op = "resetPassword" /\ ret'.pw \in StrongPasswords)
            => ~ValidResetToken(ret'.ott)]_vars

\* a ResetPassword with a weak password and a valid token has just been
\* refused, and the token is still valid
C20_Witness ==
    /\ ret.op = "resetPassword"
    /\ ret.status = "ValidationError"
    /\ ret.pw \in WeakPasswords
    /\ ValidResetToken(ret.ott)

\* the type of the verification_tokens row a raw one-time token names
\* ("none": no such row)
TypeOf(ott) ==
    LET S == {i \in DOMAIN verificationTokens : verificationTokens[i].token = ott}
    IN IF S = {} THEN "none" ELSE verificationTokens[CHOOSE i \in S : TRUE].tokenType

\* the operation that consumes tokens of each type
ConsumerOf(type) ==
    IF type = "email_verification" THEN "verifyEmail" ELSE "resetPassword"

\* C21: one-time token types are not interchangeable.  VerifyEmail passes
\* the token check only on an unused, unexpired email_verification row and
\* ResetPassword only on an unused, unexpired password_reset row; a call
\* presenting a token of the other type is answered with ValidationError and
\* leaves the token unused and the account unchanged (no table is written).
C21_TypesNotInterchangeable ==
    [][/\ \A p \in Procs : PassesOneTimeCheck(p) =>
            /\ verificationTokens[loc'[p].row].token = loc'[p].ott
            /\ verificationTokens[loc'[p].row].tokenType =
                 (IF pc'[p] = "ve_set" THEN "email_verification" ELSE "password_reset")
            /\ verificationTokens[loc'[p].row].usedAt = NULL
            /\ verificationTokens[loc'[p].row].expiresAt > now
       /\ (/\ AnswersAtOnce
           /\ ret'.op \in ConsumingOps
           /\ TypeOf(ret'.ott) # "none"
           /\ ret'.op # ConsumerOf(TypeOf(ret'.ott)))
            => /\ ret'.status = "ValidationError"
               /\ UNCHANGED store]_vars

\* a VerifyEmail presenting an unused, unexpired password_reset token has
\* just been refused, and the token can still be used for a reset
C21_Witness ==
    /\ ret.op = "verifyEmail"
    /\ ret.status = "ValidationError"
    /\ ValidResetToken(ret.ott)

\* everything but the side channels: the tables, the clock, the requests in
\* flight and the response of the step just taken
Primary == <<store, now, pc, loc, ret>>

\* C22: side channels are best-effort.  Whatever step of whatever operation
\* is taken, the same step with the audit insert failing or succeeding and
\* with the mail delivery failing or succeeding leads to the same response
\* and the same users, refresh_tokens, verification_tokens and
\* oauth_providers rows: only auth_audit_log and the sent emails differ.
C22_BestEffort ==
    [][\E outcome \in {Primary'} :
         \A a \in BOOLEAN, m \in BOOLEAN :
            ENABLED (/\ auditUp' = a
                     /\ mailUp' = m
                     /\ BestEffortSteps
                     /\ Primary' = outcome)]_vars

\* a Register has just returned its success although neither its audit
\* event nor its verification email could be written
C22_Witness ==
    /\ ret.op = "register"
    /\ ret.status = "ok"
    /\ ~auditUp
    /\ ~mailUp
    /\ auditLog = <<>>
    /\ outbox = <<>>
    /\ \E i \in DOMAIN verificationTokens : verificationTokens[i].userId = ret.uid

\* the audit events of one type
EventsOf(log, type) == {i \in DOMAIN log : log[i].eventType = type}

\* log2 is log1 followed by the events es
Extends(log2, log1, es) == log2 = log1 \o es

AuditEvent(userId, type) == [userId |-> userId, eventType |-> type]

\* C23: Unlink is idempotent.  With one request served at a time and the
\* audit insert working, Unlink(provider, subject) passes its lookup exactly
\* when the pair is linked; it then deletes that oauth_providers row and no
\* other, appends exactly one OAUTH_UNLINK event and returns true.  On a pair
\* that is not linked it returns false, raises no error, appends no audit
\* event and changes no row.
C23_UnlinkIdempotent ==
    [][/\ (AnswersAtOnce /\ ret'.op = "unlink")
            => /\ ~IsLinked(ret'.provider, ret'.providerId)
               /\ ret'.status = "false"
               /\ UNCHANGED <<store, auditLog>>
       /\ \A p \in Procs :
            /\ (pc[p] = "idle" /\ pc'[p] = "ul_delete")
                 => /\ IsLinked(loc'[p].provider, loc'[p].providerId)
                    /\ UNCHANGED <<store, auditLog>>
            /\ (pc[p] = "ul_delete" /\ pc'[p] # pc[p])
                 => /\ ret'.op = "unlink"
                    /\ ret'.status = "true"
                    /\ ~IsLinked(loc[p].provider, loc[p].providerId)'
                    /\ oauthProviders' \subseteq oauthProviders
                    /\ Cardinality(oauthProviders \ oauthProviders') = 1
                    /\ Extends(auditLog', auditLog,
                               <<AuditEvent(OwnerOf(loc[p].provider, loc[p].providerId),
                                            "OAUTH_UNLINK")>>)
                    /\ UNCHANGED <<users, refreshTokens, verificationTokens>>]_vars

\* a second delivery of an Unlink has just returned false: the only identity
\* ever linked is unlinked, and the log holds the one OAUTH_UNLINK of the
\* first delivery
C23_Witness ==
    /\ ret.op = "unlink"
    /\ ret.status = "false"
    /\ oauthSeq = 1
    /\ oauthProviders = {}
    /\ Cardinality(EventsOf(auditLog, "OAUTH_UNLINK")) = 1

\* the last n events of a log
LastEvents(log, n) == SubSeq(log, Len(log) - n + 1, Len(log))

\* C24: the audit events of HandleExternalAssertion follow its branch.  With
\* one request served at a time and the audit insert working: the lookups
\* and the overwrite of the provider tokens log nothing; creating the
\* account logs REGISTER, inserting the link logs OAUTH_LINK, issuing the
\* tokens logs LOGIN.  So a call that returns tokens for a new account has
\* logged REGISTER, OAUTH_LINK, LOGIN in that order; one that reused an
\* account by email has logged OAUTH_LINK then LOGIN and never passed the
\* step that logs REGISTER; one whose pair was already linked has logged
\* only LOGIN.
C24_AuditFollowsBranch ==
    [][\A p \in Procs :
         /\ (pc[p] = "idle" /\ pc'[p] \in {"oa_update", "oa_email"})
              => (auditLog' = auditLog /\ ~loc'[p].isNewUser
                  /\ (loc'[p].linked <=> pc'[p] = "oa_update"))
         /\ (pc[p] = "oa_update" /\ pc'[p] # pc[p])
              => (auditLog' = auditLog /\ pc'[p] = "oa_issue" /\ loc'[p] = loc[p])
         /\ (pc[p] = "oa_email" /\ pc'[p] # pc[p])
              => /\ auditLog' = auditLog
                 /\ ~loc'[p].isNewUser /\ ~loc'[p].linked
                 /\ pc'[p] \in {"oa_link", "oa_create"}
         /\ (pc[p] = "oa_create" /\ pc'[p] = "oa_link")
              => /\ loc'[p].isNewUser /\ ~loc'[p].linked
                 /\ loc'[p].uid = Len(users')
                 /\ Extends(auditLog', auditLog, <<AuditEvent(loc'[p].uid, "REGISTER")>>)
         /\ (pc[p] = "oa_link" /\ pc'[p] = "oa_issue")
              => /\ loc'[p] = loc[p]
                 /\ Extends(auditLog', auditLog, <<AuditEvent(loc[p].uid, "OAUTH_LINK")>>)
         /\ (pc[p] = "oa_issue" /\ ret'.status = "ok")
              => /\ Extends(auditLog', auditLog, <<AuditEvent(loc[p].uid, "LOGIN")>>)
                 /\ loc[p].isNewUser
                      => /\ Len(auditLog') >= 3
                         /\ LastEvents(auditLog', 3) =
                              <<AuditEvent(loc[p].uid, "REGISTER"),
                                AuditEvent(loc[p].uid, "OAUTH_LINK"),
                                AuditEvent(loc[p].uid, "LOGIN")>>
                 /\ (~loc[p].isNewUser /\ ~loc[p].linked)
                      => /\ Len(auditLog') >= 2
                         /\ LastEvents(auditLog', 2) =
                              <<AuditEvent(loc[p].uid, "OAUTH_LINK"),
                                AuditEvent(loc[p].uid, "LOGIN")>>]_vars

\* an external assertion has created an account and returned its tokens,
\* after an earlier one had been served
C24_Witness ==
    /\ ret.op = "oauth"
    /\ ret.status = "ok"
    /\ ret.isNewUser
    /\ Len(auditLog) >= 5
    /\ auditLog[Len(auditLog)].eventType = "LOGIN"
    /\ auditLog[Len(auditLog) - 2].eventType = "REGISTER"

\* the tokens the service signs: one per kind, account, email and second
Claimed(kind, userId, email, t) == [typ |-> kind, userId |-> userId, email |-> email, iat |-> t]

WellSigned(w) == w.sig = Hs256(Secret, Body(w))

C25_BothChecksPass ==
    [][\A p \in Procs :
         PassesRefreshCheck(p)
           => /\ LiveAt(refreshTokens[loc'[p].row], now)
              /\ VerifyToken(Encoded(loc'[p].tok), now).ok
              /\ VerifyToken(Encoded(loc'[p].tok), now).payload.typ = "refresh"]_vars

ViolatedRules(s) == {r \in PasswordRules : ~RuleHolds(r, s)}

\* the messages of the rules a password violates, in the order of the rules
RECURSIVE MessagesOf(_)
MessagesOf(rules) ==
    IF rules = {} THEN <<>>
    ELSE LET r == CHOOSE x \in rules : \A y \in rules : x <= y
         IN <<RuleMessage(r)>> \o MessagesOf(rules \ {r})

\* C27: password strength validation enumerates every failing rule.  For
\* every password the result is valid exactly when all five rules hold
\* (length at least 8, an uppercase letter, a lowercase letter, a digit, a
\* special character), and the error list holds exactly one entry per
\* violated rule; register and resetPassword answer a password that violates
\* a rule with a ValidationError whose message joins all these entries.
C27_EveryFailingRule ==
    /\ ret.op = "validatePasswordStrength"
         => /\ (ret.status = "valid") <=> (\A r \in PasswordRules : RuleHolds(r, ret.pw))
            /\ Len(ret.errors) = Cardinality(ViolatedRules(ret.pw))
            /\ \A r \in PasswordRules :
                 Cardinality({i \in DOMAIN ret.errors : ret.errors[i] = RuleMessage(r)})
                   = IF r \in ViolatedRules(ret.pw) THEN 1 ELSE 0
    /\ (ret.op \in {"register", "resetPassword"} /\ ViolatedRules(Shape(ret.pw)) # {})
         => /\ ret.status = "ValidationError"
            /\ ret.message = JoinWith(MessagesOf(ViolatedRules(Shape(ret.pw))), ", ")
    /\ (ret.op \in {"register", "resetPassword"} /\ ViolatedRules(Shape(ret.pw)) = {})
         => ret.message \notin {JoinWith(MessagesOf(V), ", ") : V \in SUBSET PasswordRules \ {{}}}

\* a password that violates three rules has been validated, and its three
\* messages were reported
C27_Witness ==
    /\ ret.op = "validatePasswordStrength"
    /\ ret.status = "invalid"
    /\ ViolatedRules(ret.pw) = {1, 4, 5}
    /\ Len(ret.errors) = 3

\* the operations that return a token pair
IssuingOps == {"login", "refresh", "oauth"}

\* C29: token pairs are issued only to active accounts.  No step of Login,
\* RefreshAccessToken or HandleExternalAssertion (on any of its three
\* branches) inserts a refresh_tokens row or returns tokens for an account
\* whose status is suspended or deleted at that moment.
C29_OnlyActiveIssued ==
    [][/\ Len(refreshTokens') > Len(refreshTokens)
            => users[refreshTokens'[Len(refreshTokens')].userId].status = "active"
       /\ (ret'.op \in IssuingOps /\ ret'.status = "ok")
            => users[ret'.uid].status = "active"]_vars

\* the reset of the password of account u has completed
ResetCompletedFor(u) ==
    \E i \in DOMAIN verificationTokens :
      /\ verificationTokens[i].userId = u
      /\ verificationTokens[i].tokenType = "password_reset"
      /\ verificationTokens[i].token \in consumedOK

\* C28: session invalidation holds under interleaving.  When a
\* RefreshAccessToken or a Login of an account runs at the same time as a
\* ResetPassword of that account then, once all of them have completed, no
\* refresh token derived from a token that existed when the reset revoked
\* the sessions is live, and no Login inserts a session after the reset has
\* completed for a password the reset has replaced.
C28_InvalidationUnderInterleaving ==
    [][/\ (\A p \in Procs : pc'[p] = "idle")
            => \A pr \in rotated' :
                 pr[1] \in preReset' => ~LiveAt(refreshTokens'[pr[2]], now')
       /\ \A p \in Procs :
            (/\ pc[p] = "lg_insert"
             /\ Len(refreshTokens') > Len(refreshTokens)
             /\ ResetCompletedFor(loc[p].uid))
              => VerifyPassword(loc[p].pw, users[loc[p].uid].passwordHash)]_vars

\* C30: the uniqueness invariants survive concurrent execution.  In every
\* reachable state of concurrent Register and HandleExternalAssertion calls
\* no two users rows have the same email, no two oauth_providers rows have
\* the same (provider, provider_user_id), and every oauth_providers row
\* belongs to one existing account.
C30_UniquenessSurvives ==
    /\ \A i, j \in DOMAIN users : users[i].email = users[j].email => i = j
    /\ \A r1, r2 \in oauthProviders :
         (r1.provider = r2.provider /\ r1.providerUserId = r2.providerUserId) => r1 = r2
    /\ \A r \in oauthProviders : r.userId \in DOMAIN users /\ users[r.userId].id = r.userId

\* two concurrent calls for the same new email have both passed their
\* lookups; the insert of one has been rejected after the other created the
\* account
C30_Witness ==
    /\ ret.status = "DbError"
    /\ ret.op \in {"register", "oauth"}
    /\ \E p \in Procs : pc[p] \in {"rg_token", "oa_link"}
    /\ Len(users) = 1
    /\ oauthProviders = {}

\* the rows an account owns
OwnedBy(u) ==
    [account |-> users[u],
     sessions |-> {refreshTokens[i] : i \in {j \in DOMAIN refreshTokens : refreshTokens[j].userId = u}},
     oneTime |-> {verificationTokens[i] :
                    i \in {j \in DOMAIN verificationTokens : verificationTokens[j].userId = u}},
     links |-> {r \in oauthProviders : r.userId = u}]

\* the account a step is performed for: that of the request that moved, or
\* the one named by the response of a call that answered at once (0: none)
ActingAccount ==
    IF \E p \in Procs : pc'[p] # pc[p]
    THEN LET p == CHOOSE q \in Procs : pc'[q] # pc[q]
         IN IF pc[p] # "idle" THEN loc[p].uid ELSE loc'[p].uid
    ELSE ret'.uid

\* C31: operations on one account never modify the rows of another.  Every
\* step of ResetPassword, Logout, RefreshAccessToken, VerifyEmail and Login,
\* with one or two requests in flight, leaves the users row, the
\* refresh_tokens rows, the verification_tokens rows and the oauth_providers
\* rows of every account other than the one it is performed for unchanged.
C31_OtherAccountsUntouched ==
    [][\A u \in DOMAIN users : u # ActingAccount => OwnedBy(u)' = OwnedBy(u)]_vars

\* a ResetPassword of account 1 has completed while a request of account 2
\* was in flight, and the session of account 2 is live
C31_Witness ==
    /\ ret.op = "resetPassword"
    /\ ret.status = "ok"
    /\ ret.uid = 1
    /\ \E p \in Procs : pc[p] # "idle" /\ loc[p].uid = 2
    /\ refreshTokens[1].revokedAt # NULL
    /\ LiveAt(refreshTokens[2], now)

\* C32: the authenticate middleware admits a request only when the bearer
\* token verifies (signature, expiry, issuer, audience), its kind is access
\* and the account it names exists with status active, and it admits every
\* such request; so a refresh token is never accepted as an access token.
\* No refresh_tokens row stores the hash of an access token, and an access
\* token presented to RefreshAccessToken is refused with UnauthorizedError.
C32_GateAdmitsAccessOnly ==
    /\ ret.op = "authenticate"
         => LET w == ret.tok
                Fit == /\ w # NoToken
                       /\ WellSigned(w) /\ now < w.exp
                       /\ w.iss = Issuer /\ w.aud = Audience
                       /\ w.payload.type = "access"
                       /\ w.payload.userId \in DOMAIN users
                       /\ users[w.payload.userId].status = "active"
            IN /\ (ret.status = "ok") <=> Fit
               /\ ret.status = "ok" => ret.uid = w.payload.userId
               /\ ret.status \in {"ok", "UnauthorizedError"}
    /\ \A i \in DOMAIN refreshTokens : refreshTokens[i].tokenHash.sha256.typ = "refresh"
    /\ \A p \in Procs : pc[p] \in {"rf_revoke", "rf_insert"} => loc[p].tok.typ = "refresh"
    /\ (ret.op = "refresh" /\ ret.tok.typ = "access")
         => (ret.status = "UnauthorizedError" /\ ret.refreshToken = NoToken)

\* a correctly signed, unexpired refresh token of an active account has just
\* been refused by the middleware
C32_Witness ==
    /\ ret.op = "authenticate"
    /\ ret.status = "UnauthorizedError"
    /\ ret.message = "Invalid token type"
    /\ ret.tok = Encoded(Claimed("refresh", 2, "b@x.com", 1))
    /\ users[2].status = "active"
    /\ now = 1

\* session row i was issued together with the access token of the same
\* account signed at the same second (generateTokenPair)
AccessTokenOf(i) ==
    LET r == refreshTokens[i] IN
    Encoded(Claimed("access", r.userId, users[r.userId].email, r.tokenHash.sha256.iat))

\* C33: revocation never reaches access tokens.  After Logout or a
\* successful ResetPassword has revoked a session of an
\* account, the access token issued with that session is still admitted by
\* the authenticate middleware until its signed expiry, provided the account
\* is still active; the refresh token of a session that Logout or
\* ResetPassword revoked is refused.
C33_AccessTokenOutlivesRevocation ==
    /\ \A i \in DOMAIN refreshTokens :
         LET r == refreshTokens[i] IN
         (/\ r.revokedAt # NULL
          /\ ret.op = "authenticate"
          /\ ret.tok = AccessTokenOf(i))
           => /\ (ret.status = "ok")
                   <=> (now < ret.tok.exp /\ users[r.userId].status = "active")
              /\ ret.status = "ok" => ret.uid = r.userId
    /\ \A i \in DOMAIN refreshTokens :
         (/\ refreshTokens[i].revokedAt # NULL
          /\ i \notin rotRevoked
          /\ ret.op = "refresh"
          /\ HashToken(ret.tok) = refreshTokens[i].tokenHash)
           => (ret.status = "UnauthorizedError" /\ ret.refreshToken = NoToken)

\* after a completed ResetPassword has revoked the session of account 1, the
\* access token issued with that session has just been admitted
C33_Witness ==
    /\ ret.op = "authenticate"
    /\ ret.status = "ok"
    /\ ret.uid = 1
    /\ ResetCompletedFor(1)
    /\ \E i \in DOMAIN refreshTokens :
         /\ refreshTokens[i].revokedAt # NULL
         /\ ret.tok = AccessTokenOf(i)

\* the same after a Logout, with no ResetPassword at all
C33_WitnessLogout ==
    /\ ret.op = "authenticate"
    /\ ret.status = "ok"
    /\ verificationTokens[2].usedAt = NULL
    /\ \E i \in DOMAIN refreshTokens :
         /\ refreshTokens[i].revokedAt # NULL
         /\ ret.tok = AccessTokenOf(i)

\* row i is a password_reset token that a ResetPassword call would accept
UsableResetToken(i) ==
    /\ verificationTokens[i].tokenType = "password_reset"
    /\ verificationTokens[i].usedAt = NULL
    /\ now < verificationTokens[i].expiresAt

\* C34: a reset consumes only the token presented.  The only step that
\* changes a verification_tokens row is the one that marks the presented
\* token used, so every other password_reset token of the account stays
\* unused; and a ResetPassword call that presents an unused, unexpired
\* password_reset token with an acceptable password is not refused, whatever
\* resets of the account have completed before.
C34_ResetConsumesOnlyItsToken ==
    [][/\ \A i \in DOMAIN verificationTokens :
            verificationTokens'[i] # verificationTokens[i]
              => (pc[1] = "rp_mark" /\ loc[1].row = i)
       /\ \A i \in DOMAIN verificationTokens :
            (/\ pc[1] = "idle"
             /\ ret'.op = "resetPassword"
             /\ ret'.ott = verificationTokens[i].token
             /\ UsableResetToken(i))
              => (/\ ret'.status = "ValidationError"
                  /\ ViolatedRules(Shape(ret'.pw)) # {})]_vars

\* two reset tokens of account 1 that were both outstanding have each
\* completed a ResetPassword, one after the other
C34_Witness ==
    /\ ret.op = "resetPassword"
    /\ ret.status = "ok"
    /\ \E i, j \in DOMAIN verificationTokens :
         /\ i # j
         /\ verificationTokens[i].userId = 1 /\ verificationTokens[j].userId = 1
         /\ verificationTokens[i].tokenType = "password_reset"
         /\ verificationTokens[j].tokenType = "password_reset"
         /\ verificationTokens[i].token \in consumedOK
         /\ verificationTokens[j].token \in consumedOK
         /\ ret.ott = verificationTokens[j].token
         /\ verificationTokens[j].expiresAt - ResetTTL <= verificationTokens[i].usedAt
         /\ verificationTokens[i].usedAt <= verificationTokens[j].usedAt

\* C35: unlink does not end sessions.  The step that deletes a linked
\* identity leaves every users row and every refresh_tokens row unchanged.
\* So a RefreshAccessToken call that presents the refresh token of a live
\* (unrevoked, unexpired) session of an active account is never refused,
\* whether or not the identity the session was opened through is still
\* linked, and it returns a new pair unless the account already holds a
\* session issued in the same second.
C35_UnlinkKeepsSessions ==
    [][/\ (pc[1] = "ul_delete" /\ pc'[1] = "idle")
            => (users' = users /\ refreshTokens' = refreshTokens)
       /\ (/\ AnswersAtOnce
           /\ ret'.op = "refresh"
           /\ RowOf(ret'.tok) # 0)
            => (\/ ~LiveAt(refreshTokens[RowOf(ret'.tok)], now)
                \/ users[refreshTokens[RowOf(ret'.tok)].userId].status # "active")
       /\ (pc[1] = "rf_insert" /\ pc'[1] = "idle" /\ RowOf(loc[1].newTok) = 0)
            => (/\ ret'.status = "ok"
                /\ ret'.refreshToken = loc[1].newTok
                /\ ret'.uid = refreshTokens[loc[1].row].userId)]_vars

\* the session that account 2 opened through google/sub1 has been rotated
\* after the identity was unlinked, and account 2 has no linked identity
C35_Witness ==
    /\ ret.op = "refresh"
    /\ ret.status = "ok"
    /\ ret.uid = 2
    /\ ret.tok = GenerateRefreshToken(2, "b@x.com", 0)
    /\ ~\E r \in oauthProviders : r.userId = 2
    /\ users[2] = [id |-> 2, email |-> "b@x.com", emailVerified |-> TRUE,
                   passwordHash |-> NoHash, status |-> "active", lastLoginAt |-> 0]

\* C36: the Redis-backed store enforces its limit.  Within one window, for
\* the (points+1)-th and every later increment of a key, increment reports
\* totalHits greater than points, and the limiter with max = points rejects
\* the request.
C36_StoreEnforcesLimit ==
    hit.nth > points => (hit.totalHits > points /\ hit.limited)

\* request r has been answered to its caller
Settled(r) == req[r].at \in {"resolved", "rejected"}

\* C37: the client's 401 handling terminates.  For every API request the
\* response interceptor sends at most one POST /auth/refresh and replays the
\* request at most once, and none for a public endpoint; an error response
\* to the replay or to a request for a public endpoint is handed to the
\* caller, and so is the original error after a failed refresh.
C37_OneRefreshOneReplay ==
    [][\A r \in Reqs :
         /\ req'[r].refreshes <= 1
         /\ req'[r].replays <= req'[r].refreshes
         /\ IsPublicEndpoint(req'[r].url) => req'[r].refreshes = 0
         /\ (/\ req[r].at = "failed"
             /\ (req[r].replays = 1 \/ IsPublicEndpoint(req[r].url)))
              => req'[r].at \in {"failed", "rejected"}
         /\ req[r].at = "refreshFailed" => req'[r].at \in {"refreshFailed", "rejected"}
         /\ Settled(r) => req'[r] = req[r]]_vars

\* a replayed request has been answered with 401 and handed to its caller
\* after one refresh
C37_Witness ==
    \E r \in Reqs :
      /\ req[r].at = "rejected"
      /\ req[r].url = "/auth/me"
      /\ req[r].status = 401
      /\ req[r].refreshes = 1
      /\ req[r].replays = 1
      /\ localStorage = req[r].got

\* C38: concurrent 401 handling does not destroy a fresh session.  When two
\* requests under way have both received 401 and both have sent a refresh,
\* then once both are settled, if a refresh has succeeded, localStorage holds
\* the tokens a successful refresh returned.
C38_FreshSessionKept ==
    (/\ \A r \in Reqs : Settled(r) /\ req[r].refreshes = 1
     /\ \E r \in Reqs : req[r].got # NoTokens)
      => \E r \in Reqs : req[r].got # NoTokens /\ localStorage = req[r].got

====
